---- MODULE Spec2Model ----
(***************************************************************************)
(* A model of the TALES execution engine (tae_engine): GameState, the      *)
(* condition / effect mini-language, structural navigation over the AST    *)
(* and the TalesRunner run loop with its history, undo, save and load.     *)
(*                                                                         *)
(* Representation choices                                                  *)
(*  - A DSL string is represented by the list of its colon-separated       *)
(*    fields, i.e. by the value of str.split(":").                         *)
(*  - A Python value stored in stats / variables is a tagged pair          *)
(*    <<"int", n>> or <<"str", s>>.                                        *)
(*  - Python dicts are partial functions.  GameState.to_dict and           *)
(*    GameState.from_dict copy nothing: they hand over references to the   *)
(*    three dicts, so the model keeps the dicts in a heap and the live     *)
(*    GameState and the history entries hold heap addresses.               *)
(*  - Element ids are positive integers, NoneId stands for Python's None.  *)
(***************************************************************************)
EXTENDS Integers, Sequences, FiniteSets, TLC

\* ------------------------------------------------------------------ bounds
\* longest history the model lets the runner build
MaxHistory == 4
\* largest inventory quantity / stat magnitude the model lets effects reach
MaxQty == 3

\* ------------------------------------------------------------ Python values
NoneId == 0

IntVal(n) == <<"int", n>>
StrVal(s) == <<"str", s>>
IsIntVal(v) == v[1] = "int"

\* int(s): the decimal literals of the input alphabet; any other text raises
\* ValueError
NumeralValue ==
  ("-1" :> (-1)) @@ ("0" :> 0) @@ ("1" :> 1) @@ ("2" :> 2) @@ ("3" :> 3)

IsNumeral(s) == s \in DOMAIN NumeralValue

\* "try int, then float, else keep the string" (no decimal point literals in
\* the input alphabet, so float() fails whenever int() does)
ParseValue(s) == IF IsNumeral(s) THEN IntVal(NumeralValue[s]) ELSE StrVal(s)

\* ---------------------------------------------------------------- GameState
EmptyDict == [k \in {} |-> 0]

EmptyGameState ==
  [inventory |-> EmptyDict, stats |-> EmptyDict, game_variables |-> EmptyDict]

DictSet(d, k, v) == [x \in (DOMAIN d) \cup {k} |-> IF x = k THEN v ELSE d[x]]
DictDel(d, k) == [x \in (DOMAIN d) \ {k} |-> d[x]]

\* add_to_inventory storing the quantity whether or not the item is held
\* (line 18 alone)
add_to_inventory_stored(gs, item, q) ==
  [gs EXCEPT !.inventory = DictSet(gs.inventory, item, q)]

add_to_inventory(gs, item, q) ==
  [gs EXCEPT !.inventory =
     IF item \in DOMAIN gs.inventory
       THEN DictSet(gs.inventory, item, gs.inventory[item] + q)
       ELSE DictSet(gs.inventory, item, q)]

\* remove_from_inventory without the comparison of line 22: what is held is
\* taken even when it is less than asked for
remove_from_inventory_held(gs, item, q) ==
  IF item \notin DOMAIN gs.inventory
    THEN [ok |-> FALSE, gs |-> gs]
    ELSE LET left == gs.inventory[item] - q IN
         [ok |-> TRUE,
          gs |-> [gs EXCEPT !.inventory =
                    IF left <= 0 THEN DictDel(gs.inventory, item)
                    ELSE DictSet(gs.inventory, item, left)]]

\* returns the success flag and the state
remove_from_inventory(gs, item, q) ==
  IF item \notin DOMAIN gs.inventory \/ gs.inventory[item] < q
    THEN [ok |-> FALSE, gs |-> gs]
    ELSE LET left == gs.inventory[item] - q IN
         [ok |-> TRUE,
          gs |-> [gs EXCEPT !.inventory =
                    IF left <= 0 THEN DictDel(gs.inventory, item)
                    ELSE DictSet(gs.inventory, item, left)]]

update_stat(gs, name, v) == [gs EXCEPT !.stats = DictSet(gs.stats, name, v)]

\* stats[name] += amount raises TypeError when the stored value is a str
increment_stat(gs, name, amount) ==
  IF name \notin DOMAIN gs.stats
    THEN [exc |-> "", gs |-> [gs EXCEPT !.stats = DictSet(gs.stats, name, amount)]]
    ELSE IF IsIntVal(gs.stats[name]) /\ IsIntVal(amount)
      THEN [exc |-> "",
            gs |-> [gs EXCEPT !.stats =
                      DictSet(gs.stats, name,
                              IntVal(gs.stats[name][2] + amount[2]))]]
      ELSE [exc |-> "TypeError", gs |-> gs]

set_variable(gs, name, v) ==
  [gs EXCEPT !.game_variables = DictSet(gs.game_variables, name, v)]

has_item(gs, item, q) ==
  item \in DOMAIN gs.inventory /\ gs.inventory[item] >= q

Comparators == {"==", "!=", ">", "<", ">=", "<="}

\* rank of the strings of the input alphabet in Python's string order
StrRank == ("Bob" :> 1) @@ ("abc" :> 2) @@ ("x" :> 3)

\* current <op> value for Python values: "True", "False", or the exception
\* raised ("ValueError" for an unknown operator, "TypeError" for an ordering
\* of an int against a str)
Compare(cur, op, v) ==
  LET B(b) == IF b THEN "True" ELSE "False" IN
  IF op = "==" THEN B(cur = v)
  ELSE IF op = "!=" THEN B(cur # v)
  ELSE IF op \in Comparators THEN
    IF cur[1] # v[1] THEN "TypeError"
    ELSE LET a == IF IsIntVal(cur) THEN cur[2] ELSE StrRank[cur[2]]
             b == IF IsIntVal(v) THEN v[2] ELSE StrRank[v[2]]
         IN  IF op = ">" THEN B(a > b)
             ELSE IF op = "<" THEN B(a < b)
             ELSE IF op = ">=" THEN B(a >= b)
             ELSE B(a <= b)
  ELSE "ValueError"

\* check_stat reading an absent stat as None (stats.get instead of the test
\* of lines 58-59): None differs from every value
check_stat_none(gs, name, v, op) ==
  IF name \notin DOMAIN gs.stats
    THEN (IF op = "!=" THEN "True" ELSE "False")
  ELSE Compare(gs.stats[name], op, v)

check_stat(gs, name, v, op) ==
  IF name \notin DOMAIN gs.stats THEN "False"
  ELSE Compare(gs.stats[name], op, v)

\* -------------------------------------------------------------- Effect DSL
Raise(e) == [exc |-> e, type |-> "", name |-> "", value |-> IntVal(0)]
Made(t, n, v) == [exc |-> "", type |-> t, name |-> n, value |-> v]

\* Effect.create on a string: parts = effect_data.split(":")
EffectCreate(parts) ==
  LET t == parts[1]
      n == Len(parts)
  IN
  IF t \in {"add_item", "remove_item"} THEN
    IF n < 2 THEN Raise("IndexError")
    ELSE IF n > 2
      THEN IF IsNumeral(parts[3])
             THEN Made(t, parts[2], IntVal(NumeralValue[parts[3]]))
             ELSE Raise("ValueError")
      ELSE Made(t, parts[2], IntVal(1))
  ELSE IF t \in {"set_stat", "set_var"} THEN
    IF n < 3 THEN Raise("IndexError")
    ELSE Made(t, parts[2], ParseValue(parts[3]))
  ELSE IF t = "add_stat" THEN
    IF n < 3 THEN Raise("IndexError")
    ELSE IF IsNumeral(parts[3])
      THEN Made(t, parts[2], IntVal(NumeralValue[parts[3]]))
      ELSE Raise("ValueError")
  ELSE Raise("ValueError")

\* <Effect>.apply(game_state) for the five built-in effects
EffectApply(eff, gs) ==
  IF eff.type = "add_item"
    THEN [exc |-> "", gs |-> add_to_inventory(gs, eff.name, eff.value[2])]
  ELSE IF eff.type = "remove_item"
    THEN [exc |-> "", gs |-> remove_from_inventory(gs, eff.name, eff.value[2]).gs]
  ELSE IF eff.type = "set_stat"
    THEN [exc |-> "", gs |-> update_stat(gs, eff.name, eff.value)]
  ELSE IF eff.type = "add_stat"
    THEN increment_stat(gs, eff.name, eff.value)
  ELSE [exc |-> "", gs |-> set_variable(gs, eff.name, eff.value)]

\* CompoundEffect.apply: the sub-effects in order; the first exception ends
\* the loop and what was applied before it stays applied
RECURSIVE CompoundApply(_, _)
CompoundApply(effs, gs) ==
  IF effs = <<>> THEN [exc |-> "", gs |-> gs]
  ELSE LET r == EffectApply(Head(effs), gs) IN
       IF r.exc # "" THEN r ELSE CompoundApply(Tail(effs), r.gs)

\* ----------------------------------------------------------- Condition DSL
CondRaise(e) ==
  [exc |-> e, type |-> "", name |-> "", op |-> "", value |-> IntVal(0)]
CondMade(t, n, op, v) ==
  [exc |-> "", type |-> t, name |-> n, op |-> op, value |-> v]

\* Condition.create on a string: parts = condition_data.split(":")
ConditionCreate(parts) ==
  LET t == parts[1]
      n == Len(parts)
  IN
  IF t = "has_item" THEN
    IF n < 2 THEN CondRaise("IndexError")
    ELSE IF n > 2
      THEN IF IsNumeral(parts[3])
             THEN CondMade(t, parts[2], "", IntVal(NumeralValue[parts[3]]))
             ELSE CondRaise("ValueError")
      ELSE CondMade(t, parts[2], "", IntVal(1))
  ELSE IF t \in {"check_stat", "check_var"} THEN
    IF n < 3 THEN CondRaise("IndexError")
    ELSE IF n > 3 THEN CondMade(t, parts[2], parts[3], ParseValue(parts[4]))
    ELSE CondMade(t, parts[2], "==", ParseValue(parts[3]))
  ELSE CondRaise("ValueError")

\* <Condition>.check(game_state): "True", "False" or the exception raised
ConditionCheck(c, gs) ==
  IF c.type = "has_item"
    THEN IF has_item(gs, c.name, c.value[2]) THEN "True" ELSE "False"
  ELSE IF c.type = "check_stat"
    THEN check_stat(gs, c.name, c.value, c.op)
  ELSE IF c.name \notin DOMAIN gs.game_variables THEN "False"
       ELSE Compare(gs.game_variables[c.name], c.op, c.value)

\* --------------------------------------------------------------------- AST
\* Optional[str]: None is <<>>, a string is <<parts>>
NoneStr == <<>>
Some(parts) == <<parts>>

\* the dataclasses of the parser, as records of one shape; the fields a class
\* does not have are left at a fixed filler
DialogueElement(speaker, dialogue_text, effects) ==
  [kind |-> "Dialogue", speaker |-> speaker, text |-> dialogue_text,
   level |-> 0, transition |-> "", condition |-> NoneStr, effects |-> effects,
   if_block |-> <<>>, has_else |-> FALSE, else_block |-> <<>>]

\* transition "" stands for None (the parser never yields an empty name)
ChoiceElement(level, text, transition, condition_str, effects) ==
  [kind |-> "Choice", speaker |-> "", text |-> text,
   level |-> level, transition |-> transition, condition |-> condition_str,
   effects |-> effects,
   if_block |-> <<>>, has_else |-> FALSE, else_block |-> <<>>]

\* has_else = FALSE is else_block = None
IfElement(condition, if_block, has_else, else_block) ==
  [kind |-> "If", speaker |-> "", text |-> "",
   level |-> 0, transition |-> "", condition |-> Some(condition),
   effects |-> <<>>,
   if_block |-> if_block, has_else |-> has_else, else_block |-> else_block]

SceneElement(scene_name, content) ==
  [scene_name |-> scene_name, content |-> content]

\* @scene start
\* > N: Hello {add_item:Gold:1}                                   1
\* * Take {} {add_item:Key:1}                                     2
\* * Use {has_item:Key:1} {remove_item:Key:1} {add_stat:hp:1}     3
\* * Wait                                                         4
\* > N: After                                                     5
\* * Again {} {set_var:seen:1}                                    6
\* * Stop                                                         7
ScriptGroup ==
  [scenes |-> << SceneElement("start", <<1, 2, 3, 4, 5, 6, 7>>) >>,
   elems |-> <<
     DialogueElement("N", "Hello", << <<"add_item", "Gold", "1">> >>),
     ChoiceElement(1, "Take", "", Some(<<"">>), << <<"add_item", "Key", "1">> >>),
     ChoiceElement(1, "Use", "", Some(<<"has_item", "Key", "1">>),
                   << <<"remove_item", "Key", "1">>, <<"add_stat", "hp", "1">> >>),
     ChoiceElement(1, "Wait", "", NoneStr, <<>>),
     DialogueElement("N", "After", <<>>),
     ChoiceElement(1, "Again", "", Some(<<"">>), << <<"set_var", "seen", "1">> >>),
     ChoiceElement(1, "Stop", "", NoneStr, <<>>) >>]

\* @scene start
\* * Take {} {add_item:Key:1}          1
\* * Skip                              2
\* @if has_item:Key:1                  3
\* > A: yes                            4
\* @if has_item:Key:2                  5
\* > A: two                            6
\* @endif
\* @else
\* > B: no                             7
\* @endif
\* @if has_item:Key:1                  8
\* @else
\* @endif
\* @if has_item:Key:1                  9
\* > A: got                            10
\* @endif
\* * Back                              11
ScriptIf ==
  [scenes |-> << SceneElement("start", <<1, 2, 3, 8, 9, 11>>) >>,
   elems |-> <<
     ChoiceElement(1, "Take", "", Some(<<"">>), << <<"add_item", "Key", "1">> >>),
     ChoiceElement(1, "Skip", "", NoneStr, <<>>),
     IfElement(<<"has_item", "Key", "1">>, <<4, 5>>, TRUE, <<7>>),
     DialogueElement("A", "yes", <<>>),
     IfElement(<<"has_item", "Key", "2">>, <<6>>, FALSE, <<>>),
     DialogueElement("A", "two", <<>>),
     DialogueElement("B", "no", <<>>),
     IfElement(<<"has_item", "Key", "1">>, <<>>, TRUE, <<>>),
     IfElement(<<"has_item", "Key", "1">>, <<10>>, FALSE, <<>>),
     DialogueElement("A", "got", <<>>),
     ChoiceElement(1, "Back", "", NoneStr, <<>>) >>]

\* @scene start
\* @if has_item:Key:1       1
\* > A: same                2
\* > A: one                 3
\* @else
\* > A: same                4
\* > A: two                 5
\* @endif
\* * Yes                    6
\* > B: mid                 7
\* * Yes                    8
\* * No                     9
\* > A: end                 10
ScriptDup ==
  [scenes |-> << SceneElement("start", <<1, 6, 7, 8, 9, 10>>) >>,
   elems |-> <<
     IfElement(<<"has_item", "Key", "1">>, <<2, 3>>, TRUE, <<4, 5>>),
     DialogueElement("A", "same", <<>>),
     DialogueElement("A", "one", <<>>),
     DialogueElement("A", "same", <<>>),
     DialogueElement("A", "two", <<>>),
     ChoiceElement(1, "Yes", "", NoneStr, <<>>),
     DialogueElement("B", "mid", <<>>),
     ChoiceElement(1, "Yes", "", NoneStr, <<>>),
     ChoiceElement(1, "No", "", NoneStr, <<>>),
     DialogueElement("A", "end", <<>>) >>]

\* @scene start
\* > N: go {set_stat:name:Bob} {bogus} {add_item} {add_stat:name:1} {add_item:Key:1}     1
\* @if bogus:thing                                    2
\* > A: never                                         3
\* @else
\* > A: never0                                        4
\* @endif
\* @if check_stat:name:=>:Bob                         5
\* > A: never2                                        6
\* @endif
\* @if has_item                                       7
\* > A: never3                                        8
\* @endif
\* > A: end                                           9
ScriptBad ==
  [scenes |-> << SceneElement("start", <<1, 2, 5, 7, 9>>) >>,
   elems |-> <<
     DialogueElement("N", "go", << <<"set_stat", "name", "Bob">>, <<"bogus">>,
                                   <<"add_item">>, <<"add_stat", "name", "1">>,
                                   <<"add_item", "Key", "1">> >>),
     IfElement(<<"bogus", "thing">>, <<3>>, TRUE, <<4>>),
     DialogueElement("A", "never", <<>>),
     DialogueElement("A", "never0", <<>>),
     IfElement(<<"check_stat", "name", "=>", "Bob">>, <<6>>, FALSE, <<>>),
     DialogueElement("A", "never2", <<>>),
     IfElement(<<"has_item">>, <<8>>, FALSE, <<>>),
     DialogueElement("A", "never3", <<>>),
     DialogueElement("A", "end", <<>>) >>]

\* @scene start
\* * Open {bogus:x}          1
\* * Go {} {add_item} {add_item:Key:1}   2
\* * On                      3
\* > A: mid                  4
\* * Locked {has_item}       5
\* * Free                    6
\* > A: end                  7
ScriptLocked ==
  [scenes |-> << SceneElement("start", <<1, 2, 3, 4, 5, 6, 7>>) >>,
   elems |-> <<
     ChoiceElement(1, "Open", "", Some(<<"bogus", "x">>), <<>>),
     ChoiceElement(1, "Go", "", Some(<<"">>),
                   << <<"add_item">>, <<"add_item", "Key", "1">> >>),
     ChoiceElement(1, "On", "", NoneStr, <<>>),
     DialogueElement("A", "mid", <<>>),
     ChoiceElement(1, "Locked", "", Some(<<"has_item">>), <<>>),
     ChoiceElement(1, "Free", "", NoneStr, <<>>),
     DialogueElement("A", "end", <<>>) >>]

\* @scene start
\* @scene later
\* > A: unreachable          1
ScriptEmpty ==
  [scenes |-> << SceneElement("start", <<>>), SceneElement("later", <<1>>) >>,
   elems |-> << DialogueElement("A", "unreachable", <<>>) >>]

\* @scene start
\* * Go -> camp {} {add_item:Gold:1}      1
\* * Lost -> nowhere                      2
\* * Void -> empty                        3
\* > N: fallthrough                       4
\* @scene empty
\* @scene camp
\* > N: camp                              5
\* * Rest {} {add_stat:hp:1}              6
ScriptJump ==
  [scenes |-> << SceneElement("start", <<1, 2, 3, 4>>),
                 SceneElement("empty", <<>>),
                 SceneElement("camp", <<5, 6>>) >>,
   elems |-> <<
     ChoiceElement(1, "Go", "camp", Some(<<"">>), << <<"add_item", "Gold", "1">> >>),
     ChoiceElement(1, "Lost", "nowhere", NoneStr, <<>>),
     ChoiceElement(1, "Void", "empty", NoneStr, <<>>),
     DialogueElement("N", "fallthrough", <<>>),
     DialogueElement("N", "camp", <<>>),
     ChoiceElement(1, "Rest", "", Some(<<"">>), << <<"add_stat", "hp", "1">> >>) >>]

\* @scene start
\* @if has_item:Key:1       1
\* @endif
\* > A: x                   2
\* @if has_item:Key:1       3
\* @endif
\* > A: end                 4
ScriptTwin ==
  [scenes |-> << SceneElement("start", <<1, 2, 3, 4>>) >>,
   elems |-> <<
     IfElement(<<"has_item", "Key", "1">>, <<>>, FALSE, <<>>),
     DialogueElement("A", "x", <<>>),
     IfElement(<<"has_item", "Key", "1">>, <<>>, FALSE, <<>>),
     DialogueElement("A", "end", <<>>) >>]

\* @scene start
\* * A {has_item:Key:1}                1
\* * B {} {add_item:Key:1}             2
\* > N: got {add_item:Gold:1}          3
\* * C                                 4
ScriptBack ==
  [scenes |-> << SceneElement("start", <<1, 2, 3, 4>>) >>,
   elems |-> <<
     ChoiceElement(1, "A", "", Some(<<"has_item", "Key", "1">>), <<>>),
     ChoiceElement(1, "B", "", Some(<<"">>), << <<"add_item", "Key", "1">> >>),
     DialogueElement("N", "got", << <<"add_item", "Gold", "1">> >>),
     ChoiceElement(1, "C", "", NoneStr, <<>>) >>]

\* @scene start
\* @if has_item:Gold:1                    1
\* @else
\* * Home -> final {} {set_var:back:1}    2
\* @endif
\* @scene final
\* > N: bye                               3
ScriptNest ==
  [scenes |-> << SceneElement("start", <<1>>), SceneElement("final", <<3>>) >>,
   elems |-> <<
     IfElement(<<"has_item", "Gold", "1">>, <<>>, TRUE, <<2>>),
     ChoiceElement(1, "Home", "final", Some(<<"">>), << <<"set_var", "back", "1">> >>),
     DialogueElement("N", "bye", <<>>) >>]

\* @scene start
\* * Lost -> nowhere        1
\* > B: mid                 2
\* * Lost -> nowhere        3
\* > A: end                 4
ScriptLost ==
  [scenes |-> << SceneElement("start", <<1, 2, 3, 4>>) >>,
   elems |-> <<
     ChoiceElement(1, "Lost", "nowhere", NoneStr, <<>>),
     DialogueElement("B", "mid", <<>>),
     ChoiceElement(1, "Lost", "nowhere", NoneStr, <<>>),
     DialogueElement("A", "end", <<>>) >>]

\* @scene start
\* * Locked {has_item:Key:1}     1
\* * Barred {has_item:Gold:1}    2
\* > A: end                      3
ScriptShut ==
  [scenes |-> << SceneElement("start", <<1, 2, 3>>) >>,
   elems |-> <<
     ChoiceElement(1, "Locked", "", Some(<<"has_item", "Key", "1">>), <<>>),
     ChoiceElement(1, "Barred", "", Some(<<"has_item", "Gold", "1">>), <<>>),
     DialogueElement("A", "end", <<>>) >>]

\* @scene start
\* * Red {} {set_var:c:1}                           1
\* * Blue {} {set_var:c:2}                          2
\* * Green {} {set_stat:hp:3}                       3
\* * Plain                                          4
\* @if check_var:c:1                                5
\* > A: red {add_item:Gold:1}                       6
\* @else
\* > A: other                                       7
\* @endif
\* * Buy {has_item:Gold:1} {remove_item:Gold:1}     8
\* * Keep {check_var:c:!=:2}                        9
\* * Leave                                          10
\* > A: end                                         11
ScriptFork ==
  [scenes |-> << SceneElement("start", <<1, 2, 3, 4, 5, 8, 9, 10, 11>>) >>,
   elems |-> <<
     ChoiceElement(1, "Red", "", Some(<<"">>), << <<"set_var", "c", "1">> >>),
     ChoiceElement(1, "Blue", "", Some(<<"">>), << <<"set_var", "c", "2">> >>),
     ChoiceElement(1, "Green", "", Some(<<"">>), << <<"set_stat", "hp", "3">> >>),
     ChoiceElement(1, "Plain", "", NoneStr, <<>>),
     IfElement(<<"check_var", "c", "1">>, <<6>>, TRUE, <<7>>),
     DialogueElement("A", "red", << <<"add_item", "Gold", "1">> >>),
     DialogueElement("A", "other", <<>>),
     ChoiceElement(1, "Buy", "", Some(<<"has_item", "Gold", "1">>),
                   << <<"remove_item", "Gold", "1">> >>),
     ChoiceElement(1, "Keep", "", Some(<<"check_var", "c", "!=", "2">>), <<>>),
     ChoiceElement(1, "Leave", "", NoneStr, <<>>),
     DialogueElement("A", "end", <<>>) >>]

\* @scene start
\* * Left {} {set_var:a:1}        1
\* * Right                        2
\* > N: one                       3
\* * Up {} {set_var:b:1}          4
\* * Down                         5
\* > N: two                       6
\* @if check_var:a:1              7
\* > N: left {add_stat:hp:1}      8
\* @endif
\* > N: end                       9
ScriptQuiz ==
  [scenes |-> << SceneElement("start", <<1, 2, 3, 4, 5, 6, 7, 9>>) >>,
   elems |-> <<
     ChoiceElement(1, "Left", "", Some(<<"">>), << <<"set_var", "a", "1">> >>),
     ChoiceElement(1, "Right", "", NoneStr, <<>>),
     DialogueElement("N", "one", <<>>),
     ChoiceElement(1, "Up", "", Some(<<"">>), << <<"set_var", "b", "1">> >>),
     ChoiceElement(1, "Down", "", NoneStr, <<>>),
     DialogueElement("N", "two", <<>>),
     IfElement(<<"check_var", "a", "1">>, <<8>>, FALSE, <<>>),
     DialogueElement("N", "left", << <<"add_stat", "hp", "1">> >>),
     DialogueElement("N", "end", <<>>) >>]

\* the scripts the runner is constructed on, by name
ScriptNames ==
  {"Group", "If", "Dup", "Bad", "Locked", "Jump", "Empty", "Twin", "Back",
   "Nest", "Lost", "Shut"}

\* the scripts that are only played through, without meta-commands
PlayOnlyNames == {"Fork", "Quiz"}

Script(name) ==
  CASE name = "Group" -> ScriptGroup
    [] name = "If" -> ScriptIf
    [] name = "Dup" -> ScriptDup
    [] name = "Bad" -> ScriptBad
    [] name = "Locked" -> ScriptLocked
    [] name = "Jump" -> ScriptJump
    [] name = "Empty" -> ScriptEmpty
    [] name = "Twin" -> ScriptTwin
    [] name = "Back" -> ScriptBack
    [] name = "Nest" -> ScriptNest
    [] name = "Lost" -> ScriptLost
    [] name = "Shut" -> ScriptShut
    [] name = "Fork" -> ScriptFork
    [] name = "Quiz" -> ScriptQuiz

\* ------------------------------------------------------- ids and parents
ElemIds(a) == 1..Len(a.elems)
\* the stable id of the i-th scene
SceneId(a, i) == Len(a.elems) + i
SceneIds(a) == {SceneId(a, i) : i \in 1..Len(a.scenes)}

\* TalesRunner._build_element_map: every scene and every element below it
ElementMap(a) == ElemIds(a) \cup SceneIds(a)

InSeq(x, s) == \E i \in 1..Len(s) : s[i] = x

\* the parent back-reference: the If whose branch lists the element, else
\* the Scene whose content lists it; None for a Scene
ParentOf(a, id) ==
  IF id \in SceneIds(a) THEN NoneId
  ELSE IF \E p \in ElemIds(a) :
            InSeq(id, a.elems[p].if_block) \/ InSeq(id, a.elems[p].else_block)
    THEN CHOOSE p \in ElemIds(a) :
            InSeq(id, a.elems[p].if_block) \/ InSeq(id, a.elems[p].else_block)
    ELSE SceneId(a, CHOOSE i \in 1..Len(a.scenes) : InSeq(id, a.scenes[i].content))

\* ---------------------------------------------------- dataclass equality
\* The value a dataclass-generated __eq__ compares: the class and the tuple
\* of the declared fields, lists compared element by element.  element_id
\* and parent are not fields.
RECURSIVE FieldsOf(_, _)
FieldsOf(a, id) ==
  LET e == a.elems[id] IN
  [e EXCEPT !.if_block = [i \in 1..Len(e.if_block) |-> FieldsOf(a, e.if_block[i])],
            !.else_block = [i \in 1..Len(e.else_block) |-> FieldsOf(a, e.else_block[i])]]

ElemEq(a, x, y) == FieldsOf(a, x) = FieldsOf(a, y)

\* x in lst  (list.__contains__: identity or ==)
Contains(a, lst, x) == \E i \in 1..Len(lst) : ElemEq(a, lst[i], x)

\* lst.index(x): the first position holding an element equal to x
IndexOf(a, lst, x) ==
  CHOOSE i \in 1..Len(lst) :
    /\ ElemEq(a, lst[i], x)
    /\ \A j \in 1..(i - 1) : ~ElemEq(a, lst[j], x)

\* ------------------------------------------------------------- navigation
\* the list the runner takes to hold the element: the scene content, or the
\* if_block / else_block of the parent If, tested with `in`, if_block first
ContainerOf(a, id) ==
  LET p == ParentOf(a, id) IN
  IF p \in SceneIds(a) THEN a.scenes[p - Len(a.elems)].content
  ELSE IF Contains(a, a.elems[p].if_block, id) THEN a.elems[p].if_block
  ELSE IF a.elems[p].has_else /\ Contains(a, a.elems[p].else_block, id)
    THEN a.elems[p].else_block
  ELSE <<>>

\* TalesRunner._get_next_sequential_element_id (with
\* _get_element_id_after_container, which calls it on the parent)
RECURSIVE NextSequentialElementId(_, _)
NextSequentialElementId(a, id) ==
  IF id \notin ElementMap(a) THEN NoneId
  ELSE LET p == ParentOf(a, id) IN
    IF p = NoneId THEN NoneId
    ELSE LET container == ContainerOf(a, id) IN
      IF container # <<>>
        THEN LET i == IndexOf(a, container, id) IN
             IF i + 1 <= Len(container) THEN container[i + 1]
             ELSE NextSequentialElementId(a, p)
        ELSE NextSequentialElementId(a, p)

\* ------------------------------------------------------- choice groups
\* the Choice elements that follow position i - 1 of the container without
\* interruption
RECURSIVE ChoiceRun(_, _, _)
ChoiceRun(a, container, i) ==
  IF i <= Len(container) /\ a.elems[container[i]].kind = "Choice"
    THEN <<container[i]>> \o ChoiceRun(a, container, i + 1)
    ELSE <<>>

\* lines 348-371: choice_group_elements
ChoiceGroup(a, first) ==
  LET container == ContainerOf(a, first) IN
  IF container = <<>> THEN <<first>>
  ELSE <<first>> \o ChoiceRun(a, container, IndexOf(a, container, first) + 1)

\* The AST never changes after construction, so what navigation computes
\* per element is tabulated once per script.
SuccessorTable ==
  [n \in ScriptNames \cup PlayOnlyNames |->
     [id \in ElementMap(Script(n)) |-> NextSequentialElementId(Script(n), id)]]

GroupTable ==
  [n \in ScriptNames \cup PlayOnlyNames |->
     [id \in {x \in ElemIds(Script(n)) : Script(n).elems[x].kind = "Choice"} |->
        ChoiceGroup(Script(n), id)]]

\* ------------------------------------------------------------------ state
VARIABLES
  script,              \* name of the script whose AST the runner holds
  current_element_id,  \* TalesRunner.current_element_id
  game_state,          \* heap address of the dicts of TalesRunner.game_state
  heap,                \* address -> contents of the three dicts
  history,             \* TalesRunner.history: <<[state: address, id]>>
  save_file,           \* content of the save file, <<>> when there is none
  execution_active,    \* local of run()
  pc,                  \* "start": run() not entered, "loop", "done"
  ui_log,              \* the UIInterface calls of the last loop iteration
  presented,           \* ui_choices of the prompt of the last iteration
  last,                \* what the last iteration did: [op, executed, arg]
  trail,               \* bookkeeping: [shape, acts, undos, loaded]
  unit                 \* the library object exercised apart from a runner

\* the variables of a TalesRunner
runner ==
  <<script, current_element_id, game_state, heap, history, save_file,
    execution_active, pc, ui_log, presented, last, trail>>

vars ==
  <<script, current_element_id, game_state, heap, history, save_file,
    execution_active, pc, ui_log, presented, last, trail, unit>>

\* no library object is exercised while a runner runs
NoUnit == [kind |-> "none"]

\* TalesRunner.ast
ast == Script(script)

\* _get_next_sequential_element_id on an id of the element map
Successor(id) == SuccessorTable[script][id]

Live == heap[game_state]

\* the value recorded by a history entry
Snapshot(h, entry) == h[entry.state]

\* TalesRunner._set_initial_element
InitialElement(a) ==
  IF a.scenes # <<>> /\ a.scenes[1].content # <<>>
    THEN a.scenes[1].content[1]
    ELSE NoneId

\* GameState.to_dict: a new outer dict holding the three live dicts
\* themselves, i.e. the address of the live dicts
to_dict(addr) == addr

\* GameState.from_dict: a new GameState around the three dicts of `data`
from_dict(addr) == addr

\* TalesRunner._save_history_snapshot
SaveHistorySnapshot(h, addr, executed_element_id) ==
  Append(h, [state |-> to_dict(addr), id |-> executed_element_id])

\* TalesRunner.__init__
Init ==
  /\ script \in ScriptNames
  /\ current_element_id = InitialElement(ast)
  /\ game_state = 1
  /\ heap = [a \in {1} |-> EmptyGameState]
  /\ history = SaveHistorySnapshot(<<>>, 1, NoneId)
  /\ save_file = <<>>
  /\ execution_active = TRUE
  /\ pc = "start"
  /\ ui_log = <<>>
  /\ presented = <<>>
  /\ last = [op |-> "init", executed |-> NoneId, arg |-> NoneId]
  /\ trail = [shape |-> "acts", acts |-> 0, undos |-> 0, loaded |-> FALSE]
  /\ unit = NoUnit

\* ------------------------------------------------------ model bookkeeping
Abs(n) == IF n < 0 THEN -n ELSE n

\* the caps that keep the counters of a looping story finite
WithinBounds(gs, h) ==
  /\ Len(h) <= MaxHistory
  /\ \A k \in DOMAIN gs.inventory : Abs(gs.inventory[k]) <= MaxQty
  /\ \A k \in DOMAIN gs.stats :
       IsIntVal(gs.stats[k]) => Abs(gs.stats[k][2]) <= MaxQty

TrailAct(t) ==
  IF t.shape = "acts" THEN [t EXCEPT !.acts = @ + 1]
  ELSE [t EXCEPT !.shape = "other"]

TrailUndo(t) ==
  IF t.shape \in {"acts", "undos"}
    THEN [t EXCEPT !.shape = "undos", !.undos = @ + 1]
    ELSE t

\* addresses still referenced by the live GameState or the history
Reachable(gsaddr, h) == {gsaddr} \cup {h[i].state : i \in 1..Len(h)}
Collect(hp, gsaddr, h) == [a \in Reachable(gsaddr, h) |-> hp[a]]

\* ---------------------------------------------------------- run(): entry
\* lines 180-186: a runner without a starting element notifies and returns
RunEnter ==
  /\ pc = "start"
  /\ IF current_element_id = NoneId
       THEN /\ pc' = "done"
            /\ ui_log' = <<"notify_error">>
       ELSE /\ pc' = "loop"
            /\ ui_log' = <<>>
  /\ last' = [op |-> "enter", executed |-> NoneId, arg |-> NoneId]
  /\ presented' = <<>>
  /\ UNCHANGED <<unit, script, current_element_id, game_state, heap, history, save_file,
                 execution_active, trail>>

InLoop == pc = "loop" /\ execution_active /\ current_element_id # NoneId

\* lines 213-216 and 247-248: the value an element handler returned is an
\* element id or None
Advance(next_id) ==
  /\ current_element_id' = next_id
  /\ execution_active' = (next_id # NoneId)

\* ------------------------------------------------------- _apply_effects
\* The effects that resolved are applied to the live dicts after one
\* history push; nothing happens when none resolved.
ApplyEffects(effs, context_element_id) ==
  IF effs = <<>>
    THEN [heap |-> heap, history |-> history, log |-> <<>>, pushed |-> FALSE]
    ELSE LET r == CompoundApply(effs, heap[game_state]) IN
         [heap |-> [heap EXCEPT ![game_state] = r.gs],
          history |-> SaveHistorySnapshot(history, game_state, context_element_id),
          log |-> IF r.exc # "" THEN <<"notify_error">> ELSE <<>>,
          pushed |-> TRUE]

\* the effect strings of a Dialogue that Effect.create resolves, in order
\* (a string that raises is logged and skipped)
RECURSIVE ResolvedEffects(_)
ResolvedEffects(sources) ==
  IF sources = <<>> THEN <<>>
  ELSE LET e == EffectCreate(Head(sources)) IN
       (IF e.exc = "" THEN <<e>> ELSE <<>>) \o ResolvedEffects(Tail(sources))

\* ---------------------------------------------------- _execute_dialogue
ExecuteDialogue ==
  /\ InLoop
  /\ current_element_id \in ElemIds(ast)
  /\ ast.elems[current_element_id].kind = "Dialogue"
  /\ LET e == ast.elems[current_element_id]
         next_id == Successor(current_element_id)
         is_end == ~(next_id \in ElemIds(ast) /\ ast.elems[next_id].kind = "Dialogue")
         r == ApplyEffects(ResolvedEffects(e.effects), current_element_id)
     IN /\ heap' = r.heap
        /\ history' = r.history
        /\ WithinBounds(heap'[game_state], history')
        /\ ui_log' = <<IF is_end THEN "display_dialogue_end" ELSE "display_dialogue">>
                     \o r.log
        /\ trail' = IF r.pushed THEN TrailAct(trail) ELSE trail
        /\ last' = [op |-> "dialogue", executed |-> current_element_id,
                    arg |-> IF r.pushed THEN 1 ELSE 0]
        /\ Advance(next_id)
  /\ presented' = <<>>
  /\ UNCHANGED <<unit, script, game_state, save_file, pc>>

\* ------------------------------------------------------------ _execute_if
\* the id _execute_if returns for element e, whose sequential successor is
\* `after`, and the notifications it makes
IfOutcome(e, gs, after) ==
  LET c == ConditionCreate(e.condition[1])
      met == IF c.exc # "" THEN c.exc ELSE ConditionCheck(c, gs)
  IN
  IF met = "ValueError"
    THEN [next |-> after, log |-> <<"notify_warning">>]
  ELSE IF met \notin {"True", "False"}
    THEN [next |-> NoneId, log |-> <<"notify_error">>]
  ELSE IF met = "True"
    THEN [next |-> IF e.if_block # <<>> THEN e.if_block[1] ELSE after,
          log |-> <<>>]
  ELSE [next |-> IF e.has_else /\ e.else_block # <<>> THEN e.else_block[1]
                 ELSE after,
        log |-> <<>>]

\* _execute_if as it would be with the history snapshot that line 498 says
\* is not taken
ExecuteIfRecorded ==
  /\ InLoop
  /\ current_element_id \in ElemIds(ast)
  /\ ast.elems[current_element_id].kind = "If"
  /\ Len(history) < MaxHistory
  /\ LET r == IfOutcome(ast.elems[current_element_id], Live,
                      Successor(current_element_id)) IN
       /\ ui_log' = r.log
       /\ Advance(r.next)
  /\ history' = SaveHistorySnapshot(history, game_state, current_element_id)
  /\ last' = [op |-> "if", executed |-> current_element_id, arg |-> 0]
  /\ presented' = <<>>
  /\ UNCHANGED <<unit, script, game_state, heap, save_file, pc, trail>>

ExecuteIf ==
  /\ InLoop
  /\ current_element_id \in ElemIds(ast)
  /\ ast.elems[current_element_id].kind = "If"
  /\ LET r == IfOutcome(ast.elems[current_element_id], Live,
                      Successor(current_element_id)) IN
       /\ ui_log' = r.log
       /\ Advance(r.next)
  /\ last' = [op |-> "if", executed |-> current_element_id, arg |-> 0]
  /\ presented' = <<>>
  /\ UNCHANGED <<unit, script, game_state, heap, history, save_file, pc, trail>>

\* ---------------------------------------------------- _handle_choice_start
\* lines 380-389: "True" / "False", or the exception that leaves the handler
\* (only ValueError is caught there)
ChoiceCondition(e, gs) ==
  IF e.condition = NoneStr \/ e.condition[1] = <<"">> THEN "True"
  ELSE LET c == ConditionCreate(e.condition[1]) IN
       IF c.exc = "ValueError" THEN "False"
       ELSE IF c.exc # "" THEN c.exc
       ELSE LET r == ConditionCheck(c, gs) IN
            IF r = "ValueError" THEN "False" ELSE r

\* lines 396-408: the effects of an available choice; a ValueError skips the
\* string, any other exception ends the parsing of this choice
RECURSIVE ParseChoiceEffects(_)
ParseChoiceEffects(sources) ==
  IF sources = <<>> THEN [exc |-> "", effs |-> <<>>]
  ELSE IF Head(sources) = <<"">> THEN ParseChoiceEffects(Tail(sources))
  ELSE LET e == EffectCreate(Head(sources)) IN
       IF e.exc = "ValueError" THEN ParseChoiceEffects(Tail(sources))
       ELSE IF e.exc # "" THEN [exc |-> e.exc, effs |-> <<>>]
       ELSE LET r == ParseChoiceEffects(Tail(sources)) IN
            [exc |-> r.exc, effs |-> IF r.exc = "" THEN <<e>> \o r.effs ELSE <<>>]

\* ui_choices; `available` is also membership in available_choice_objects
UiChoices(a, gs, group) ==
  [i \in 1..Len(group) |->
     [id |-> group[i],
      available |-> /\ ChoiceCondition(a.elems[group[i]], gs) = "True"
                    /\ ParseChoiceEffects(a.elems[group[i]].effects).exc = ""]]

HandlerRaises(a, gs, group) ==
  \E i \in 1..Len(group) :
    ChoiceCondition(a.elems[group[i]], gs) \notin {"True", "False"}

\* the transition lookup without the comparison of line 453: the first
\* scene is taken whatever its name
TransitionTargetUnnamed(a, name) ==
  IF a.scenes # <<>> /\ a.scenes[1].content # <<>>
    THEN a.scenes[1].content[1]
    ELSE NoneId

\* lines 448-461: the first content element of the first scene of that name
TransitionTarget(a, name) ==
  IF \E i \in 1..Len(a.scenes) : a.scenes[i].scene_name = name
    THEN LET i == CHOOSE k \in 1..Len(a.scenes) :
                    /\ a.scenes[k].scene_name = name
                    /\ \A j \in 1..(k - 1) : a.scenes[j].scene_name # name
         IN IF a.scenes[i].content # <<>> THEN a.scenes[i].content[1] ELSE NoneId
    ELSE NoneId

AtChoice ==
  /\ InLoop
  /\ current_element_id \in ElemIds(ast)
  /\ ast.elems[current_element_id].kind = "Choice"

Group == GroupTable[script][current_element_id]
LastInGroup == Group[Len(Group)]

\* the handler reaches ui.prompt_choice
Prompting == AtChoice /\ ~HandlerRaises(ast, Live, Group)

Shown == UiChoices(ast, Live, Group)

\* lines 255-260: an exception left the handler
ChoiceRaise ==
  /\ AtChoice
  /\ HandlerRaises(ast, Live, Group)
  /\ ui_log' = <<"notify_error">>
  /\ presented' = <<>>
  /\ execution_active' = FALSE
  /\ current_element_id' = NoneId
  /\ last' = [op |-> "raise", executed |-> current_element_id, arg |-> 0]
  /\ UNCHANGED <<unit, script, game_state, heap, history, save_file, pc, trail>>

\* lines 438-470: the UI returned the id of an available choice
ChoiceSelect ==
  /\ Prompting
  /\ \E i \in 1..Len(Group) :
       /\ Shown[i].available
       /\ LET chosen == Group[i]
              e == ast.elems[chosen]
              r == ApplyEffects(ParseChoiceEffects(e.effects).effs, chosen)
              target == TransitionTarget(ast, e.transition)
              after == Successor(LastInGroup)
          IN /\ heap' = r.heap
             /\ history' = r.history
             /\ WithinBounds(heap'[game_state], history')
             /\ ui_log' = <<"prompt_choice">> \o r.log \o
                   (IF e.transition # "" /\ target = NoneId
                      THEN <<"notify_error">> ELSE <<>>)
             /\ trail' = IF r.pushed THEN TrailAct(trail) ELSE trail
             /\ last' = [op |-> "select", executed |-> current_element_id,
                         arg |-> chosen]
             /\ Advance(IF e.transition # "" /\ target # NoneId
                          THEN target ELSE after)
  /\ presented' = Shown
  /\ UNCHANGED <<unit, script, game_state, save_file, pc>>

\* lines 471-475: the UI returned an id that is no available choice
ChoiceInvalid ==
  /\ Prompting
  /\ \E x \in ElementMap(ast) :
       /\ \A i \in 1..Len(Group) : Group[i] = x => ~Shown[i].available
       /\ x \in SceneIds(ast) \/ InSeq(x, Group)
       /\ last' = [op |-> "invalid", executed |-> current_element_id, arg |-> x]
  /\ ui_log' = <<"prompt_choice", "notify_error">>
  /\ presented' = Shown
  /\ Advance(Successor(LastInGroup))
  /\ UNCHANGED <<unit, script, game_state, heap, history, save_file, pc, trail>>

\* line 436: the UI returned None
ChoiceNone ==
  /\ Prompting
  /\ ui_log' = <<"prompt_choice">>
  /\ presented' = Shown
  /\ Advance(Successor(LastInGroup))
  /\ last' = [op |-> "none", executed |-> current_element_id, arg |-> 0]
  /\ UNCHANGED <<unit, script, game_state, heap, history, save_file, pc, trail>>

\* lines 244-246: the UI returned 'next'
ChoiceNext ==
  /\ Prompting
  /\ ui_log' = <<"prompt_choice">>
  /\ presented' = Shown
  /\ current_element_id' = Successor(current_element_id)
  /\ last' = [op |-> "next", executed |-> current_element_id, arg |-> 0]
  /\ UNCHANGED <<unit, script, game_state, heap, history, save_file, pc, trail,
                 execution_active>>

\* 'quit' ending the run whatever the answer to the confirmation
ChoiceQuitRegardless ==
  /\ Prompting
  /\ \E confirmed \in BOOLEAN :
       /\ execution_active' = FALSE
       /\ current_element_id' = NoneId
       /\ last' = [op |-> "quit", executed |-> current_element_id,
                   arg |-> IF confirmed THEN 1 ELSE 0]
  /\ ui_log' = <<"prompt_choice", "confirm_action">>
  /\ presented' = Shown
  /\ UNCHANGED <<unit, script, game_state, heap, history, save_file, pc, trail>>

\* lines 236-243: the UI returned 'quit'; the user confirms or not
ChoiceQuit ==
  /\ Prompting
  /\ \E confirmed \in BOOLEAN :
       /\ execution_active' = ~confirmed
       /\ current_element_id' = IF confirmed THEN NoneId ELSE current_element_id
       /\ last' = [op |-> "quit", executed |-> current_element_id,
                   arg |-> IF confirmed THEN 1 ELSE 0]
  /\ ui_log' = <<"prompt_choice", "confirm_action">>
  /\ presented' = Shown
  /\ UNCHANGED <<unit, script, game_state, heap, history, save_file, pc, trail>>

\* ------------------------------------------------------------------- undo
\* undo without the assignment of line 640: the position stays where it was
UndoKeepsPosition(a, h, gsaddr, cur) ==
  IF Len(h) <= 1
    THEN [ok |-> FALSE, history |-> h, game_state |-> gsaddr, current |-> cur,
          log |-> <<"notify_info">>]
    ELSE LET popped == SubSeq(h, 1, Len(h) - 1)
             top == popped[Len(popped)]
         IN [ok |-> TRUE, history |-> popped,
             game_state |-> from_dict(top.state),
             current |-> cur,
             log |-> <<"notify_success">>]

\* undo treating a short history as the except branch of lines 653-657
\* treats a failure: the position is cleared
UndoClearsPosition(a, h, gsaddr, cur) ==
  IF Len(h) <= 1
    THEN [ok |-> FALSE, history |-> h, game_state |-> gsaddr, current |-> NoneId,
          log |-> <<"notify_info">>]
    ELSE LET popped == SubSeq(h, 1, Len(h) - 1)
             top == popped[Len(popped)]
         IN [ok |-> TRUE, history |-> popped,
             game_state |-> from_dict(top.state),
             current |-> top.id,
             log |-> <<"notify_success">>]

\* undo with the test of line 625 off by one (len(self.history) < 1): the
\* initial entry is popped as well and the peek of line 635 raises, which the
\* except branch of lines 653-657 reports
UndoPopsInitial(a, h, gsaddr, cur) ==
  IF Len(h) < 1
    THEN [ok |-> FALSE, history |-> h, game_state |-> gsaddr, current |-> cur,
          log |-> <<"notify_info">>]
    ELSE LET popped == SubSeq(h, 1, Len(h) - 1) IN
         IF popped = <<>>
           THEN [ok |-> FALSE, history |-> popped, game_state |-> gsaddr,
                 current |-> NoneId, log |-> <<"notify_error">>]
           ELSE [ok |-> TRUE, history |-> popped,
                 game_state |-> from_dict(popped[Len(popped)].state),
                 current |-> popped[Len(popped)].id,
                 log |-> <<"notify_success">>]

\* TalesRunner.undo on (history, game_state, current_element_id)
Undo(a, h, gsaddr, cur) ==
  IF Len(h) <= 1
    THEN [ok |-> FALSE, history |-> h, game_state |-> gsaddr, current |-> cur,
          log |-> <<"notify_info">>]
    ELSE LET popped == SubSeq(h, 1, Len(h) - 1)
             top == popped[Len(popped)]
         IN [ok |-> TRUE, history |-> popped,
             game_state |-> from_dict(top.state),
             current |-> top.id,
             log |-> (IF top.id # NoneId /\ top.id \notin ElementMap(a)
                        THEN <<"notify_warning">> ELSE <<>>)
                     \o <<"notify_success">>]

\* lines 231-235: the UI returned 'undo'
ChoiceUndo ==
  /\ Prompting
  /\ LET r == Undo(ast, history, game_state, current_element_id) IN
       /\ history' = r.history
       /\ game_state' = r.game_state
       /\ current_element_id' = r.current
       /\ heap' = Collect(heap, r.game_state, r.history)
       /\ ui_log' = <<"prompt_choice">> \o r.log
       /\ trail' = IF r.ok THEN TrailUndo(trail) ELSE trail
       /\ last' = [op |-> "undo", executed |-> current_element_id,
                   arg |-> IF r.ok THEN 1 ELSE 0]
  /\ presented' = Shown
  /\ UNCHANGED <<unit, script, save_file, pc, execution_active>>

\* ------------------------------------------------------------ save / load
\* a save that writes the newest history entry only
SaveDataTop(cur, hp, gsaddr, h) ==
  [current_element_id |-> cur,
   game_state |-> hp[gsaddr],
   history |-> << [state |-> hp[h[Len(h)].state], id |-> h[Len(h)].id] >>]

\* json.dump of save_data: the values, no sharing
SaveData(cur, hp, gsaddr, h) ==
  [current_element_id |-> cur,
   game_state |-> hp[gsaddr],
   history |-> [i \in 1..Len(h) |-> [state |-> hp[h[i].state], id |-> h[i].id]]]

\* lines 219-222: the UI returned 'save'; the user cancels, or the file is
\* written, or writing fails
ChoiceSave ==
  /\ Prompting
  /\ \E outcome \in {"cancel", "written", "failed"} :
       /\ save_file' = IF outcome = "written"
                         THEN <<SaveData(current_element_id, heap, game_state, history)>>
                         ELSE save_file
       /\ ui_log' = <<"prompt_choice", "get_save_filename",
                      IF outcome = "cancel" THEN "notify_info"
                      ELSE IF outcome = "written" THEN "notify_success"
                      ELSE "notify_error">>
       /\ last' = [op |-> "save", executed |-> current_element_id,
                   arg |-> IF outcome = "written" THEN 1 ELSE 0]
  /\ presented' = Shown
  /\ UNCHANGED <<unit, script, current_element_id, game_state, heap, history, pc, trail,
                 execution_active>>

\* an id no element of the present script carries
UnknownId(a) == Len(a.elems) + Len(a.scenes) + 1

\* a well-formed save file written for another version of the script
ForeignSave(a) ==
  [current_element_id |-> UnknownId(a),
   game_state |-> EmptyGameState,
   history |-> << [state |-> EmptyGameState, id |-> NoneId] >>]

\* lines 223-230 with load_game returning False: cancelled, file not found,
\* invalid JSON, or a missing top-level key
ChoiceLoadRejected ==
  /\ Prompting
  /\ \E outcome \in {"cancel", "missing", "corrupt", "invalid"} :
       /\ ui_log' = <<"prompt_choice", "get_load_filename",
                      IF outcome = "cancel" THEN "notify_info" ELSE "notify_error">>
       /\ last' = [op |-> "load_rejected", executed |-> current_element_id,
                   arg |-> 0]
  /\ presented' = Shown
  /\ UNCHANGED <<unit, script, current_element_id, game_state, heap, history, save_file,
                 pc, trail, execution_active>>

\* a load committing the game state alone (line 596 without 597-598)
ChoiceLoadStateOnly ==
  /\ Prompting
  /\ \E data \in {save_file[i] : i \in 1..Len(save_file)} \cup {ForeignSave(ast)} :
       LET n == Len(history) IN
       /\ heap' = [a \in 1..(n + 1) |->
                     IF a = 1 THEN data.game_state ELSE heap[history[a - 1].state]]
       /\ game_state' = from_dict(1)
       /\ history' = [i \in 1..n |-> [state |-> i + 1, id |-> history[i].id]]
       /\ ui_log' = <<"prompt_choice", "get_load_filename", "notify_success">>
       /\ last' = [op |-> "load", executed |-> current_element_id, arg |-> 0]
  /\ trail' = [trail EXCEPT !.shape = "other", !.loaded = TRUE]
  /\ presented' = Shown
  /\ UNCHANGED <<unit, script, save_file, pc, execution_active, current_element_id>>

\* lines 582-602: json.load builds fresh dicts for the game state and for
\* every history entry
ChoiceLoad ==
  /\ Prompting
  /\ \E data \in {save_file[i] : i \in 1..Len(save_file)} \cup {ForeignSave(ast)} :
       LET n == Len(data.history) IN
       /\ heap' = [a \in 1..(n + 1) |->
                     IF a = 1 THEN data.game_state ELSE data.history[a - 1].state]
       /\ game_state' = from_dict(1)
       /\ history' = [i \in 1..n |-> [state |-> i + 1, id |-> data.history[i].id]]
       /\ current_element_id' = data.current_element_id
       /\ ui_log' = <<"prompt_choice", "get_load_filename">>
                    \o (IF data.current_element_id # NoneId
                           /\ data.current_element_id \notin ElementMap(ast)
                          THEN <<"notify_warning">> ELSE <<>>)
                    \o <<"notify_success">>
       /\ last' = [op |-> "load", executed |-> current_element_id,
                   arg |-> IF data \notin {save_file[i] : i \in 1..Len(save_file)}
                             THEN 0
                           ELSE IF last.op = "save" /\ last.arg = 1 THEN 2
                           ELSE 1]
  /\ trail' = [trail EXCEPT !.shape = "other", !.loaded = TRUE]
  /\ presented' = Shown
  /\ UNCHANGED <<unit, script, save_file, pc, execution_active>>

\* the loop left on an unknown id without the notification of line 192
MissingElementUnreported ==
  /\ InLoop
  /\ current_element_id \notin ElementMap(ast)
  /\ pc' = "done"
  /\ ui_log' = <<>>
  /\ presented' = <<>>
  /\ last' = [op |-> "missing", executed |-> current_element_id, arg |-> 0]
  /\ UNCHANGED <<unit, script, current_element_id, game_state, heap, history, save_file,
                 execution_active, trail>>

\* lines 190-193: the current id names no element of the map
MissingElement ==
  /\ InLoop
  /\ current_element_id \notin ElementMap(ast)
  /\ pc' = "done"
  /\ ui_log' = <<"notify_error">>
  /\ presented' = <<>>
  /\ last' = [op |-> "missing", executed |-> current_element_id, arg |-> 0]
  /\ UNCHANGED <<unit, script, current_element_id, game_state, heap, history, save_file,
                 execution_active, trail>>

\* --------------------------------------------------------- run(): the exit
\* lines 262-271
Finish ==
  /\ pc = "loop"
  /\ ~execution_active \/ current_element_id = NoneId
  /\ pc' = "done"
  /\ ui_log' = IF ~execution_active /\ current_element_id = NoneId
                 THEN <<"notify_success">> ELSE <<>>
  /\ last' = [op |-> "finish", executed |-> NoneId, arg |-> 0]
  /\ presented' = <<>>
  /\ UNCHANGED <<unit, script, current_element_id, game_state, heap, history, save_file,
                 execution_active, trail>>

Next ==
  \/ RunEnter
  \/ ExecuteDialogue
  \/ ExecuteIf
  \/ ChoiceRaise
  \/ ChoiceSelect
  \/ ChoiceInvalid
  \/ ChoiceNone
  \/ ChoiceNext
  \/ ChoiceQuit
  \/ ChoiceUndo
  \/ ChoiceSave
  \/ ChoiceLoadRejected
  \/ ChoiceLoad
  \/ MissingElement
  \/ Finish

Spec == Init /\ [][Next]_vars

\* ------------------------------------------------- positions in the tree
\* What the specification means by position: the list that holds the element
\* itself (every id occurs once in the tree) and the element's index in it.
OwningList(a, id) ==
  LET p == ParentOf(a, id) IN
  IF p \in SceneIds(a) THEN a.scenes[p - Len(a.elems)].content
  ELSE IF InSeq(id, a.elems[p].if_block) THEN a.elems[p].if_block
  ELSE a.elems[p].else_block

PositionIn(lst, id) == CHOOSE i \in 1..Len(lst) : lst[i] = id

\* L[i+1] when it exists, else the structural successor of the parent If,
\* none below a Scene
RECURSIVE StructuralSuccessor(_, _)
StructuralSuccessor(a, id) ==
  IF id \in SceneIds(a) THEN NoneId
  ELSE LET L == OwningList(a, id)
           i == PositionIn(L, id)
       IN IF i < Len(L) THEN L[i + 1]
          ELSE StructuralSuccessor(a, ParentOf(a, id))

\* the element and the Choice siblings that follow it without interruption
StructuralGroup(a, id) ==
  LET L == OwningList(a, id) IN
  <<id>> \o ChoiceRun(a, L, PositionIn(L, id) + 1)

\* the element is a Choice whose left neighbour in its list is a Choice
PrecededByChoice(a, id) ==
  LET L == OwningList(a, id)
      i == PositionIn(L, id)
  IN i > 1 /\ a.elems[L[i - 1]].kind = "Choice"

\* --------------------------------------------------------------- claims
\* C1: a run that did N >= 1 effect-applying actions (dialogues or selected
\* choices whose effects resolved) and then N undos, starting from the
\* constructed runner and without a load, has the initial empty GameState as
\* its live GameState.
UndoInverse ==
  (/\ trail.shape = "undos"
   /\ trail.acts >= 1
   /\ trail.undos = trail.acts
   /\ ~trail.loaded)
  => Live = EmptyGameState

\* C2: a step that applies effects (a dialogue or a selected choice) leaves
\* the inventory, stats and variables recorded in every history entry that
\* existed before the step unchanged.
SnapshotsIndependent ==
  [][last'.op \in {"dialogue", "select"} =>
       \A i \in 1..Len(history) :
         Snapshot(heap', history'[i]) = Snapshot(heap, history[i])]_vars

\* C3: after an element is executed whose handler advances sequentially (a
\* Dialogue), the current element is the structural successor by position:
\* the next element of the owning list, else that of the parent If, else
\* none.
DialogueAdvancesStructurally ==
  last.op = "dialogue" =>
    current_element_id = StructuralSuccessor(ast, last.executed)

\* C4: when an available choice without transition has been selected, the
\* group that was presented is the executed Choice followed by the Choice
\* siblings right after it in its owning list, and the current element is
\* the structural successor of the last element of that group.
ChoiceGroupStructural ==
  (last.op = "select" /\ ast.elems[last.arg].transition = "") =>
    LET group == StructuralGroup(ast, last.executed) IN
    /\ [i \in 1..Len(presented) |-> presented[i].id] = group
    /\ current_element_id = StructuralSuccessor(ast, group[Len(group)])

\* C5: the first choice of every presented group has no Choice immediately
\* before it in its owning list.
PromptsMaximalRun ==
  presented # <<>> => ~PrecededByChoice(ast, presented[1].id)

\* C6: an undo made with at least two history entries removes the top entry
\* and nothing else, makes the live GameState the snapshot of the new top
\* entry and makes the current element id the id of the new top entry.
UndoPopsAndRestores ==
  [][(last'.op = "undo" /\ Len(history) >= 2) =>
       /\ history' = SubSeq(history, 1, Len(history) - 1)
       /\ \A i \in 1..Len(history') :
            Snapshot(heap', history'[i]) = Snapshot(heap, history[i])
       /\ heap'[game_state'] = Snapshot(heap', history'[Len(history')])
       /\ current_element_id' = history'[Len(history')].id]_vars

\* a successful undo has just landed on an element, entries remain below
UndoLanded ==
  /\ last.op = "undo" /\ last.arg = 1
  /\ Len(history) >= 2
  /\ current_element_id = history[Len(history)].id
  /\ current_element_id # NoneId

\* C7: an undo made with fewer than two history entries notifies the user and
\* leaves GameState, history and current element id as they were, so that
\* the loop runs the same element again.
UndoRefused ==
  [][(last'.op = "undo" /\ Len(history) < 2) =>
       /\ \E k \in 1..Len(ui_log') : ui_log'[k] = "notify_info"
       /\ history' = history
       /\ heap'[game_state'] = heap[game_state]
       /\ current_element_id' = current_element_id
       /\ current_element_id' = last'.executed
       /\ execution_active' /\ pc' = "loop"]_vars

\* an undo was refused on the one-entry history and the element is still
\* current
UndoWasRefused ==
  /\ last.op = "undo" /\ last.arg = 0
  /\ Len(history) = 1
  /\ current_element_id = last.executed

\* C8: after an If whose condition resolved to true or false, the current
\* element is the first of the if-branch (true, non-empty), the first of the
\* else-branch (false, non-empty), and otherwise the structural successor of
\* the If, reached without any call of the presentation interface.
IfBranchTaken ==
  LET e == ast.elems[last.executed]
      c == ConditionCreate(e.condition[1])
      met == ConditionCheck(c, Live)
  IN
  (last.op = "if" /\ c.exc = "" /\ met \in {"True", "False"}) =>
    IF met = "True" /\ e.if_block # <<>>
      THEN current_element_id = e.if_block[1]
    ELSE IF met = "False" /\ e.has_else /\ e.else_block # <<>>
      THEN current_element_id = e.else_block[1]
    ELSE /\ current_element_id = StructuralSuccessor(ast, last.executed)
         /\ ui_log = <<>>

\* C9: the step that executes an If leaves the live GameState, the history
\* and the recorded snapshots as they were.
IfLeavesStateAlone ==
  [][(/\ InLoop
      /\ current_element_id \in ElemIds(ast)
      /\ ast.elems[current_element_id].kind = "If") =>
       /\ heap'[game_state'] = heap[game_state]
       /\ history' = history
       /\ \A i \in 1..Len(history) :
            Snapshot(heap', history'[i]) = Snapshot(heap, history[i])]_vars

\* an If whose condition did not resolve was executed on a GameState that is
\* not empty and a history with more than the initial entry
IfExecutedOnState ==
  /\ last.op = "if"
  /\ ui_log # <<>>
  /\ Live # EmptyGameState
  /\ Len(history) >= 2

\* C10: after an If whose condition expression Condition.create rejects
\* (unknown keyword or too few fields), the rejection has been reported and
\* the current element is the structural successor of the If.
UnresolvableIfSkipped ==
  (/\ last.op = "if"
   /\ ConditionCreate(ast.elems[last.executed].condition[1]).exc # "") =>
    /\ ui_log # <<>>
    /\ current_element_id = StructuralSuccessor(ast, last.executed)

\* the steps taken at a Choice element
ChoiceOps ==
  {"raise", "select", "invalid", "none", "next", "quit", "undo", "save",
   "load_rejected", "load"}

\* the choice carries a condition expression that Condition.create rejects
MalformedCondition(e) ==
  /\ e.kind = "Choice"
  /\ e.condition # NoneStr
  /\ e.condition[1] # <<"">>
  /\ ConditionCreate(e.condition[1]).exc # ""

\* C11: when a Choice has been executed whose group holds a choice with a
\* malformed condition expression, the group was presented, with that choice
\* unavailable, and no exception left the handler.
MalformedChoiceUnavailable ==
  (/\ last.op \in ChoiceOps
   /\ \E i \in 1..Len(GroupTable[script][last.executed]) :
        MalformedCondition(ast.elems[GroupTable[script][last.executed][i]])) =>
    /\ last.op # "raise"
    /\ [i \in 1..Len(presented) |-> presented[i].id]
         = GroupTable[script][last.executed]
    /\ \A i \in 1..Len(presented) :
         MalformedCondition(ast.elems[presented[i].id]) => ~presented[i].available

\* every effect of the list applied in order, one that raises being skipped
RECURSIVE ApplyEach(_, _)
ApplyEach(effs, gs) ==
  IF effs = <<>> THEN gs
  ELSE LET r == EffectApply(Head(effs), gs) IN
       ApplyEach(Tail(effs), IF r.exc = "" THEN r.gs ELSE gs)

\* C12: the step that executes a Dialogue leaves the GameState that results
\* from applying, in declared order, every effect expression that resolves
\* and applies, the others being skipped, and makes the structural successor
\* the current element.
DialogueAppliesEach ==
  [][last'.op = "dialogue" =>
       /\ heap'[game_state'] =
            ApplyEach(ResolvedEffects(ast.elems[last'.executed].effects),
                      heap[game_state])
       /\ current_element_id' = StructuralSuccessor(ast, last'.executed)]_vars

\* C13: the step that selects an available choice whose transition names a
\* scene with content applies the effects of the choice and makes the first
\* content element of that scene the current element.
TransitionTaken ==
  [][(last'.op = "select" /\ ast.elems[last'.arg].transition # "") =>
       \A i \in 1..Len(ast.scenes) :
         (/\ ast.scenes[i].scene_name = ast.elems[last'.arg].transition
          /\ ast.scenes[i].content # <<>>) =>
           /\ current_element_id' = ast.scenes[i].content[1]
           /\ execution_active'
           /\ heap'[game_state'] =
                CompoundApply(ParseChoiceEffects(ast.elems[last'.arg].effects).effs,
                              heap[game_state]).gs]_vars

\* a choice nested in an If has just taken its transition to another scene,
\* its effect applied
NestedTransitionTaken ==
  /\ last.op = "select"
  /\ ParentOf(ast, last.arg) \in ElemIds(ast)
  /\ ast.elems[last.arg].transition = "final"
  /\ current_element_id = ast.scenes[2].content[1]
  /\ "back" \in DOMAIN Live.game_variables

\* the transition of the element names no scene with content
TransitionFails(a, id) ==
  /\ a.elems[id].transition # ""
  /\ \A i \in 1..Len(a.scenes) :
       a.scenes[i].scene_name = a.elems[id].transition => a.scenes[i].content = <<>>

\* C14: selecting an available choice whose transition names a scene that
\* does not exist or has no content ends with an error notification, does not
\* raise, and continues with the structural successor of the last element of
\* the choice group (the run ends when there is none); the GameState and the
\* history are those of the same selection without a transition.
FailedTransitionFallsThrough ==
  [][(last'.op = "select" /\ TransitionFails(ast, last'.arg)) =>
       LET G == StructuralGroup(ast, last'.executed)
           r == ApplyEffects(ParseChoiceEffects(ast.elems[last'.arg].effects).effs,
                             last'.arg)
       IN /\ ui_log'[Len(ui_log')] = "notify_error"
          /\ current_element_id' = StructuralSuccessor(ast, G[Len(G)])
          /\ execution_active' = (current_element_id' # NoneId)
          /\ heap'[game_state'] = r.heap[game_state]
          /\ history' = r.history]_vars

\* C15: every selection of an available choice appends exactly one history
\* entry, tagged with the id of the chosen choice; a choice without effects
\* is no exception.
SelectionPushesEntry ==
  [][last'.op = "select" =>
       /\ Len(history') = Len(history) + 1
       /\ SubSeq(history', 1, Len(history)) = history
       /\ history'[Len(history')].id = last'.arg]_vars

\* C16: a quit request goes through a confirmation; when the user declines,
\* the current element id, the GameState and the history are unchanged and the
\* run stays at the same element; when the user confirms, the current element
\* id becomes none and the loop ends.
QuitAsksFirst ==
  [][last'.op = "quit" =>
       /\ InSeq("confirm_action", ui_log')
       /\ game_state' = game_state /\ heap' = heap /\ history' = history
       /\ last'.arg = 0 =>
            /\ current_element_id' = current_element_id
            /\ last'.executed = current_element_id
            /\ execution_active' /\ pc' = "loop"
       /\ last'.arg = 1 =>
            /\ current_element_id' = NoneId
            /\ ~execution_active']_vars

\* the user declined a quit in the middle of a story: the same prompt is due
QuitDeclined ==
  /\ last.op = "quit" /\ last.arg = 0
  /\ Len(history) > 1
  /\ Prompting
  /\ current_element_id = last.executed
  /\ Shown = presented

\* the files a load can read: the one written by save, or one written for
\* another version of the script
LoadableFiles == {save_file[i] : i \in 1..Len(save_file)} \cup {ForeignSave(ast)}

SaveLoadRoundTrip ==
  [][(last.op = "save" /\ last.arg = 1 /\ last'.op = "load" /\ last'.arg = 2) =>
       /\ current_element_id' = last.executed
       /\ current_element_id' = current_element_id
       /\ heap'[game_state'] = heap[game_state]
       /\ Len(history') = Len(history)
       /\ \A i \in 1..Len(history) :
            /\ history'[i].id = history[i].id
            /\ heap'[history'[i].state] = heap[history[i].state]]_vars

\* the file saved by the step before has been loaded, in the middle of a
\* story with a non-empty GameState
LoadedWhatWasSaved ==
  /\ last.op = "load" /\ last.arg = 2
  /\ Len(history) > 2
  /\ Live # EmptyGameState
  /\ current_element_id = last.executed

\* C19: a successful load whose current element id is not in the element map
\* notifies a warning and makes the loaded GameState and history the live
\* ones; the loop then stops with an error notification, no exception.
UnknownIdLoadStops ==
  [][/\ (last'.op = "load" /\ current_element_id' # NoneId
                           /\ current_element_id' \notin ElementMap(ast)) =>
          /\ InSeq("notify_warning", ui_log')
          /\ \E data \in LoadableFiles :
               /\ data.current_element_id = current_element_id'
               /\ heap'[game_state'] = data.game_state
               /\ Len(history') = Len(data.history)
               /\ \A i \in 1..Len(history') :
                    /\ history'[i].id = data.history[i].id
                    /\ heap'[history'[i].state] = data.history[i].state
          /\ pc' = "loop"
     /\ (pc = "loop" /\ last.op = "load" /\ current_element_id # NoneId
                     /\ current_element_id \notin ElementMap(ast)) =>
          /\ last'.op = "missing"
          /\ ui_log' = <<"notify_error">>
          /\ pc' = "done"
          /\ game_state' = game_state /\ heap' = heap /\ history' = history]_vars

\* the run has stopped on the unknown id of a loaded file, the loaded
\* GameState and history being the live ones
StoppedOnUnknownId ==
  /\ last.op = "missing"
  /\ pc = "done"
  /\ trail.loaded
  /\ current_element_id = UnknownId(ast)
  /\ ui_log = <<"notify_error">>
  /\ Live = ForeignSave(ast).game_state
  /\ Len(history) = Len(ForeignSave(ast).history)

\* the element (for a Choice: one choice of the group it starts) carries a
\* condition or an effect expression that the factories do not resolve
HasUnresolvable(a, id) ==
  LET e == a.elems[id] IN
  \/ /\ e.kind = "Dialogue"
     /\ \E i \in 1..Len(e.effects) : EffectCreate(e.effects[i]).exc # ""
  \/ /\ e.kind = "If"
     /\ ConditionCreate(e.condition[1]).exc # ""
  \/ /\ e.kind = "Choice"
     /\ \E i \in 1..Len(GroupTable[script][id]) :
          MalformedCondition(a.elems[GroupTable[script][id][i]])

Notifications == {"notify_info", "notify_warning", "notify_error", "notify_success"}

\* C20: whenever an element is executed of which a condition or effect
\* expression fails to resolve, the presentation layer is notified during
\* that step.
UnresolvedIsNotified ==
  [][(/\ last'.op \in {"dialogue", "if"} \cup ChoiceOps
      /\ HasUnresolvable(ast, last'.executed)) =>
       \E i \in 1..Len(ui_log') : ui_log'[i] \in Notifications]_vars

\* ===================================================== GameState on its own
\* A GameState driven directly by effect and condition strings, without a
\* runner: unit = [kind, gs, before, call, result, run] where gs is the
\* GameState, before the GameState the last call found, call the fields of the
\* string of the last call, result what the call returned or raised and run
\* the progress of an add, add, remove sequence on one item.

\* no runner has been constructed
RunnerIdle ==
  /\ script = "Empty"
  /\ current_element_id = NoneId
  /\ game_state = 1
  /\ heap = [a \in {1} |-> EmptyGameState]
  /\ history = <<>>
  /\ save_file = <<>>
  /\ execution_active = FALSE
  /\ pc = "done"
  /\ ui_log = <<>>
  /\ presented = <<>>
  /\ last = [op |-> "init", executed |-> NoneId, arg |-> NoneId]
  /\ trail = [shape |-> "other", acts |-> 0, undos |-> 0, loaded |-> FALSE]

\* the effect strings applied: every quantity text for the item, and a few
\* stat and variable effects
EffectTexts ==
  {<<k, "Gold", q>> : k \in {"add_item", "remove_item"}, q \in DOMAIN NumeralValue}
    \cup {<<"set_stat", "hp", v>> : v \in {"1", "Bob"}}
    \cup {<<"add_stat", "hp", v>> : v \in {"1", "-1"}}
    \cup {<<"set_var", "flag", v>> : v \in {"1", "Bob"}}

\* the condition strings checked: the six comparators and one that is none
ConditionTexts ==
  {<<"has_item", "Gold", q>> : q \in DOMAIN NumeralValue}
    \cup {<<t[1], t[2], op, v>> :
            t \in {<<"check_stat", "hp">>, <<"check_var", "flag">>},
            op \in Comparators \cup {"=>"}, v \in {"1", "Bob"}}

NoRun == [stage |-> 0, item |-> "", q1 |-> 0, q2 |-> 0]

\* progress of "add q1 to an absent item, add q2, remove q1 + q2"
RunAfter(run, e, gs) ==
  LET q == e.value[2] IN
  IF e.type = "add_item" /\ q > 0 THEN
    IF run.stage = 1 /\ run.item = e.name
      THEN [run EXCEPT !.stage = 2, !.q2 = q]
    ELSE IF e.name \notin DOMAIN gs.inventory
      THEN [stage |-> 1, item |-> e.name, q1 |-> q, q2 |-> 0]
    ELSE NoRun
  ELSE IF /\ e.type = "remove_item" /\ run.stage = 2
          /\ run.item = e.name /\ q = run.q1 + run.q2
    THEN [run EXCEPT !.stage = 3]
  ELSE NoRun

InitState ==
  /\ RunnerIdle
  /\ unit = [kind |-> "state", gs |-> EmptyGameState, before |-> EmptyGameState,
             call |-> <<"">>, result |-> "", run |-> NoRun]

\* Effect.create(text).apply(game_state); for remove_item the flag returned
\* by remove_from_inventory is kept as the result
ApplyEffectText ==
  /\ unit.kind = "state"
  /\ \E parts \in EffectTexts :
       LET e == EffectCreate(parts)
           r == EffectApply(e, unit.gs)
       IN /\ e.exc = ""
          /\ WithinBounds(r.gs, <<>>)
          /\ unit' = [unit EXCEPT
               !.before = unit.gs,
               !.gs = r.gs,
               !.call = parts,
               !.result =
                 IF r.exc # "" THEN r.exc
                 ELSE IF e.type = "remove_item"
                   THEN (IF remove_from_inventory(unit.gs, e.name, e.value[2]).ok
                           THEN "True" ELSE "False")
                 ELSE "None",
               !.run = RunAfter(unit.run, e, unit.gs)]
  /\ UNCHANGED runner

\* Condition.create(text).check(game_state)
CheckConditionText ==
  /\ unit.kind = "state"
  /\ \E parts \in ConditionTexts :
       LET c == ConditionCreate(parts) IN
       unit' = [unit EXCEPT
         !.before = unit.gs,
         !.call = parts,
         !.result = IF c.exc # "" THEN c.exc ELSE ConditionCheck(c, unit.gs),
         !.run = NoRun]
  /\ UNCHANGED runner

NextState ==
  \/ ApplyEffectText
  \/ CheckConditionText

SpecState == InitState /\ [][NextState]_vars

\* C21: whatever add_item and remove_item effects were applied, with any
\* quantity a script can write (0 and negative ones included), every key of
\* the inventory maps to a quantity of at least 1.
InventoryPositive ==
  unit.kind = "state" =>
    \A k \in DOMAIN unit.gs.inventory : unit.gs.inventory[k] >= 1

\* the last call was remove_item on an item that was absent or held in a
\* smaller quantity than asked for
RemovedTooMuch ==
  /\ unit.kind = "state"
  /\ unit.call[1] = "remove_item"
  /\ \/ unit.call[2] \notin DOMAIN unit.before.inventory
     \/ NumeralValue[unit.call[3]] > unit.before.inventory[unit.call[2]]

\* C22: removing an item that is absent, or more of it than is held, returns
\* failure, raises nothing and leaves inventory, stats and variables as they
\* were.
RemoveRefused ==
  RemovedTooMuch => unit.result = "False" /\ unit.gs = unit.before

\* more Gold than was held has just been asked for, in a GameState that also
\* holds a stat and a variable
RemoveRefusedHeld ==
  /\ RemovedTooMuch
  /\ "Gold" \in DOMAIN unit.before.inventory
  /\ unit.before.inventory["Gold"] >= 1
  /\ unit.before.stats # EmptyDict /\ unit.before.game_variables # EmptyDict
  /\ unit.result = "False"

\* C23: for an item absent from the inventory and positive q1, q2, add_item
\* with q1 and then with q2 gives the quantity q1 + q2, and remove_item of
\* exactly q1 + q2 after that succeeds and deletes the key.
AddTwiceRemoveAll ==
  unit.kind = "state" =>
    /\ unit.run.stage = 2 =>
         /\ unit.run.item \in DOMAIN unit.gs.inventory
         /\ unit.gs.inventory[unit.run.item] = unit.run.q1 + unit.run.q2
    /\ unit.run.stage = 3 =>
         /\ unit.result = "True"
         /\ unit.run.item \notin DOMAIN unit.gs.inventory

\* add 1, add 2, remove 3 has just been completed on Gold
AddedTwiceRemovedAll ==
  /\ unit.kind = "state"
  /\ unit.run = [stage |-> 3, item |-> "Gold", q1 |-> 1, q2 |-> 2]
  /\ unit.call = <<"remove_item", "Gold", "3">>
  /\ unit.before.inventory["Gold"] = 3

\* the last call was a condition on an item, a stat or a variable that the
\* GameState does not hold
CheckedAbsent ==
  /\ unit.kind = "state"
  /\ \/ unit.call[1] = "has_item" /\ unit.call[2] \notin DOMAIN unit.gs.inventory
     \/ unit.call[1] = "check_stat" /\ unit.call[2] \notin DOMAIN unit.gs.stats
     \/ unit.call[1] = "check_var" /\ unit.call[2] \notin DOMAIN unit.gs.game_variables

\* C24: has_item on an absent item, check_stat on an absent stat and
\* check_var on an absent variable are false, for every comparator (!=
\* included) and every comparison value.
AbsentIsFalse ==
  CheckedAbsent => unit.result = "False"

\* check_stat:hp:!=:1 has just been checked on a GameState without hp that
\* holds other things
AbsentStatDiffers ==
  /\ CheckedAbsent
  /\ unit.call = <<"check_stat", "hp", "!=", "1">>
  /\ unit.gs.inventory # EmptyDict /\ unit.gs.game_variables # EmptyDict
  /\ unit.result = "False"

\* C25: a check_stat or check_var condition whose comparator is none of
\* ==, !=, >, <, >=, <= ends in an error when it is resolved and checked,
\* whether the GameState holds the named stat or variable or not.
UnknownComparatorIsError ==
  (/\ unit.kind = "state"
   /\ unit.call[1] \in {"check_stat", "check_var"}
   /\ Len(unit.call) > 3
   /\ unit.call[3] \notin Comparators) =>
     unit.result = "ValueError"

\* ================================================================ TalesLexer
\* A line is the sequence of its characters, a script the sequence of its
\* lines (the value of text.splitlines()).  Positions are 1-based here; the
\* position an error message names is the 0-based one of the code.

Whitespace == {" ", "\t"}
Digits == {"0", "1", "2", "3", "4", "5", "6", "7", "8", "9"}
Letters ==
  {"a", "b", "c", "d", "e", "f", "g", "h", "i", "j", "k", "l", "m", "n", "o",
   "p", "q", "r", "s", "t", "u", "v", "w", "x", "y", "z", "_",
   "A", "E", "F", "L", "R", "S", "T", "U"}

\* str.lower() on the letters of the input alphabet
Lower(c) ==
  CASE c = "A" -> "a" [] c = "E" -> "e" [] c = "F" -> "f" [] c = "L" -> "l"
    [] c = "R" -> "r" [] c = "S" -> "s" [] c = "T" -> "t" [] c = "U" -> "u"
    [] OTHER -> c

LowerAll(s) == [i \in 1..Len(s) |-> Lower(s[i])]

RECURSIVE LStrip(_)
LStrip(s) == IF s # <<>> /\ Head(s) \in Whitespace THEN LStrip(Tail(s)) ELSE s

RECURSIVE RStrip(_)
RStrip(s) ==
  IF s # <<>> /\ s[Len(s)] \in Whitespace
    THEN RStrip(SubSeq(s, 1, Len(s) - 1)) ELSE s

\* str.strip()
Strip(s) == RStrip(LStrip(s))

Token(type, value) == <<type, value>>

NoError == [msg |-> "", pos |-> -1]
LexError(msg, pos) == [msg |-> msg, pos |-> pos - 1]

AllDigits(s) == s # <<>> /\ \A i \in 1..Len(s) : s[i] \in Digits

\* NUMBER_RE  ^[\+\-]?\d+(\.\d+)?$
NUMBER_RE(s) ==
  LET body == IF s # <<>> /\ Head(s) \in {"+", "-"} THEN Tail(s) ELSE s IN
  \/ AllDigits(body)
  \/ \E i \in 1..Len(body) :
       /\ body[i] = "."
       /\ AllDigits(SubSeq(body, 1, i - 1))
       /\ AllDigits(SubSeq(body, i + 1, Len(body)))

\* COMPARATOR_RE  ^(==|!=|<=|>=|<|>)$
COMPARATOR_RE(s) ==
  s \in {<<"=", "=">>, <<"!", "=">>, <<"<", "=">>, <<">", "=">>, <<"<">>, <<">">>}

\* BOOLEAN_RE  ^(true|false)$
BOOLEAN_RE(s) == s \in {<<"t", "r", "u", "e">>, <<"f", "a", "l", "s", "e">>}

create_token(token_type, value) ==
  IF token_type = "TEXT" /\ BOOLEAN_RE(LowerAll(value))
    THEN Token("BOOLEAN", LowerAll(value))
    ELSE Token(token_type, value)

\* <<>> stands for None
look_ahead(line, pos, length) ==
  IF pos + length - 1 <= Len(line) THEN SubSeq(line, pos, pos + length - 1)
  ELSE <<>>

RECURSIVE skip_whitespace(_, _)
skip_whitespace(line, pos) ==
  IF pos <= Len(line) /\ line[pos] \in Whitespace
    THEN skip_whitespace(line, pos + 1) ELSE pos

AtScene == <<"@", "s", "c", "e", "n", "e">>
AtIf == <<"@", "i", "f">>
AtElse == <<"@", "e", "l", "s", "e">>
AtEndif == <<"@", "e", "n", "d", "i", "f">>

Handled(pos, token) == [pos |-> pos, token |-> token, err |-> NoError]
Refused(err) == [pos |-> 0, token |-> Token("UNKNOWN", <<>>), err |-> err]

\* the directive a line holds at pos: <<token type, text>>, or <<>> for none
DirectiveAt(line, pos) ==
  IF look_ahead(line, pos, Len(AtScene)) = AtScene THEN <<"SCENE", AtScene>>
  ELSE IF look_ahead(line, pos, Len(AtIf)) = AtIf THEN <<"IF", AtIf>>
  ELSE IF look_ahead(line, pos, Len(AtElse)) = AtElse THEN <<"ELSE", AtElse>>
  ELSE IF look_ahead(line, pos, Len(AtEndif)) = AtEndif THEN <<"ENDIF", AtEndif>>
  ELSE <<>>

handle_directives(line, pos) ==
  LET d == DirectiveAt(line, pos) IN
  IF d = <<>> THEN
    IF pos + 1 <= Len(line) /\ line[pos + 1] \in Letters
      THEN Refused(LexError("Unknown directive", pos))
      ELSE Refused(LexError("Invalid directive", pos))
  ELSE
    LET after == pos + Len(d[2]) IN
    IF after <= Len(line) /\ line[after] \in Whitespace
      THEN Handled(skip_whitespace(line, after), Token(d[1], d[2]))
    ELSE IF after > Len(line)
      THEN Handled(after, Token(d[1], d[2]))
    ELSE Refused(LexError("Unexpected character after directive", after))

handle_separator(line, pos) ==
  Handled(skip_whitespace(line, pos + 1), Token("SEPARATOR", <<":">>))

handle_bracket(line, pos) ==
  Handled(skip_whitespace(line, pos + 1),
          Token(IF line[pos] = "{" THEN "OPEN_BRACKET" ELSE "CLOSE_BRACKET",
                <<line[pos]>>))

\* the dialogue marker refused only when a character that is no whitespace
\* follows it
handle_dialogue_or_end(line, pos) ==
  IF pos + 1 <= Len(line) /\ line[pos + 1] \notin Whitespace
    THEN Refused(LexError("Missing whitespace after dialogue", pos))
    ELSE Handled(skip_whitespace(line, pos + 2), Token("DIALOGUE", <<">">>))

handle_dialogue(line, pos) ==
  IF pos + 1 > Len(line) \/ line[pos + 1] \notin Whitespace
    THEN Refused(LexError("Missing whitespace after dialogue", pos))
    ELSE Handled(skip_whitespace(line, pos + 2), Token("DIALOGUE", <<">">>))

RECURSIVE CountAsterisks(_, _, _)
CountAsterisks(line, pos, asterisks) ==
  IF pos + asterisks <= Len(line) /\ line[pos + asterisks] = "*"
    THEN CountAsterisks(line, pos, asterisks + 1) ELSE asterisks

handle_choice(line, pos) ==
  LET asterisks == CountAsterisks(line, pos, 1) IN
  Handled(skip_whitespace(line, pos + asterisks),
          Token("CHOICE", [i \in 1..asterisks |-> "*"]))

handle_transition(line, pos) ==
  IF pos + 2 > Len(line) \/ line[pos + 2] \notin Whitespace
    THEN Refused(LexError("Missing whitespace after transition", pos))
    ELSE Handled(skip_whitespace(line, pos + 2), Token("TRANSITION", <<"-", ">">>))

add_text_token(text, tokens) ==
  IF text = <<>> THEN tokens
  ELSE LET t == Strip(text) IN
       IF NUMBER_RE(t) THEN Append(tokens, create_token("NUMBER", t))
       ELSE IF BOOLEAN_RE(t) THEN Append(tokens, create_token("BOOLEAN", t))
       ELSE IF COMPARATOR_RE(t) THEN Append(tokens, create_token("COMPARATOR", t))
       ELSE Append(tokens, create_token("TEXT", t))

Lexed(tokens) == [tokens |-> tokens, err |-> NoError]
NotLexed(err) == [tokens |-> <<>>, err |-> err]

\* the main loop of tokenize_line
RECURSIVE TokenizeFrom(_, _, _, _, _)
TokenizeFrom(line, pos, initial_pos, tokens, text) ==
  IF pos > Len(line) THEN Lexed(add_text_token(text, tokens))
  ELSE
    LET c == line[pos] IN
    IF pos = initial_pos THEN
      IF c \in {"@", ">", "*"} THEN
        LET h == IF c = "@" THEN handle_directives(line, pos)
                 ELSE IF c = ">" THEN handle_dialogue(line, pos)
                 ELSE handle_choice(line, pos)
        IN IF h.err # NoError THEN NotLexed(h.err)
           ELSE TokenizeFrom(line, h.pos, initial_pos, Append(tokens, h.token), text)
      ELSE NotLexed(LexError("Unexpected token at beginning of line", pos))
    ELSE IF c = ":" \/ c \in {"{", "}"} \/ look_ahead(line, pos, 2) = <<"-", ">">> THEN
      LET h == IF c = ":" THEN handle_separator(line, pos)
               ELSE IF c \in {"{", "}"} THEN handle_bracket(line, pos)
               ELSE handle_transition(line, pos)
      IN IF h.err # NoError THEN NotLexed(h.err)
         ELSE TokenizeFrom(line, h.pos, initial_pos,
                           Append(add_text_token(text, tokens), h.token), <<>>)
    ELSE IF look_ahead(line, pos, 2) = <<"/", "/">> THEN
      TokenizeFrom(line, Len(line) + 1, initial_pos, tokens, text)
    ELSE TokenizeFrom(line, pos + 1, initial_pos, tokens, Append(text, c))

tokenize_line(line) ==
  LET initial_pos == skip_whitespace(line, 1) IN
  IF initial_pos = Len(line) + 1 \/ look_ahead(line, initial_pos, 2) = <<"/", "/">>
    THEN Lexed(<<>>)
    ELSE TokenizeFrom(line, initial_pos, initial_pos, <<>>, <<>>)

\* tokenize: the mapping from line numbers to token lists built so far, or
\* the ValueError that names the line that failed and carries the message of
\* the error raised in that line
RECURSIVE TokenizeLines(_, _, _)
\* every lexed line stored, the ones without tokens too (line 65 left out)
TokenizeLinesKeepEmpty(lines, line_num, all_tokens) ==
  IF line_num > Len(lines)
    THEN [exc |-> "", line |-> 0, err |-> NoError, all_tokens |-> all_tokens]
  ELSE
    LET r == tokenize_line(lines[line_num]) IN
    IF r.err # NoError
      THEN [exc |-> "ValueError", line |-> line_num, err |-> r.err,
            all_tokens |-> EmptyDict]
    ELSE TokenizeLines(lines, line_num + 1, DictSet(all_tokens, line_num, r.tokens))

TokenizeLines(lines, line_num, all_tokens) ==
  IF line_num > Len(lines)
    THEN [exc |-> "", line |-> 0, err |-> NoError, all_tokens |-> all_tokens]
  ELSE
    LET r == tokenize_line(lines[line_num]) IN
    IF r.err # NoError
      THEN [exc |-> "ValueError", line |-> line_num, err |-> r.err,
            all_tokens |-> EmptyDict]
    ELSE TokenizeLines(lines, line_num + 1,
           IF r.tokens # <<>> THEN DictSet(all_tokens, line_num, r.tokens)
           ELSE all_tokens)

tokenize(lines) == TokenizeLines(lines, 1, EmptyDict)

\* =============================================================== TalesParser
\* The parser returns the elements as the dataclasses hold them: a Scene
\* holds the list of its elements and an If the lists of its branches, the
\* texts are sequences of characters, an absent transition or condition is
\* NoneStr and a present one Some(text).  No field holds an identifier or a
\* parent.

\* "".join(parts)
RECURSIVE Join(_)
Join(parts) == IF parts = <<>> THEN <<>> ELSE Head(parts) \o Join(Tail(parts))

NoParseError == [exc |-> "", msg |-> "", lines |-> <<>>]
ParseError(msg, lines) == [exc |-> "ValueError", msg |-> msg, lines |-> lines]
\* raise ValueError(f"... near line {line}: {e}") from e
NearLine(err, line) == [err EXCEPT !.lines = <<line>> \o @]

\* the loop of _parse_bracket_content
RECURSIVE BracketFrom(_, _, _, _)
\* the content ended at the first closing bracket met
BracketFromFirstClose(tokens, pos, level, content_parts) ==
  IF pos > Len(tokens)
    THEN [content |-> <<>>, next |-> 0,
          err |-> ParseError("Unbalanced curly brackets", <<>>)]
  ELSE IF tokens[pos][1] = "CLOSE_BRACKET"
    THEN [content |-> Strip(Join(content_parts)), next |-> pos + 1,
          err |-> NoParseError]
  ELSE BracketFrom(tokens, pos + 1, level, Append(content_parts, tokens[pos][2]))

BracketFrom(tokens, pos, level, content_parts) ==
  IF pos > Len(tokens)
    THEN [content |-> <<>>, next |-> 0,
          err |-> ParseError("Unbalanced curly brackets", <<>>)]
  ELSE
    LET token_type == tokens[pos][1]
        lvl == IF token_type = "OPEN_BRACKET" THEN level + 1
               ELSE IF token_type = "CLOSE_BRACKET" THEN level - 1
               ELSE level
    IN IF token_type = "CLOSE_BRACKET" /\ lvl = 0
         THEN [content |-> Strip(Join(content_parts)), next |-> pos + 1,
               err |-> NoParseError]
         ELSE BracketFrom(tokens, pos + 1, lvl,
                IF lvl > 0 THEN Append(content_parts, tokens[pos][2])
                ELSE content_parts)

parse_bracket_content(tokens, open_bracket_index) ==
  BracketFrom(tokens, open_bracket_index + 1, 1, <<>>)

NoElement == [kind |-> "None"]
Matched(elem) == [elem |-> elem, err |-> NoParseError]
NotMatched(err) == [elem |-> NoElement, err |-> err]

match_scene(tokens) ==
  IF Len(tokens) >= 2 /\ tokens[1][1] = "SCENE" /\ tokens[2][1] = "TEXT" THEN
    IF Len(tokens) > 2
      THEN NotMatched(ParseError("Unexpected token after scene name", <<>>))
      ELSE Matched(SceneElement(tokens[2][2], <<>>))
  ELSE NotMatched(NoParseError)

\* the effect blocks of a dialogue line, from token pos on; b is what
\* _parse_bracket_content returned for the block at pos
RECURSIVE DialogueEffectsFrom(_, _, _)
RECURSIVE DialogueAfterBracket(_, _, _)
DialogueAfterBracket(tokens, effects, b) ==
  IF b.err # NoParseError THEN [effects |-> <<>>, err |-> b.err]
  ELSE DialogueEffectsFrom(tokens, b.next, Append(effects, b.content))

DialogueEffectsFrom(tokens, pos, effects) ==
  IF pos > Len(tokens) THEN [effects |-> effects, err |-> NoParseError]
  ELSE IF tokens[pos][1] = "OPEN_BRACKET"
    THEN DialogueAfterBracket(tokens, effects, parse_bracket_content(tokens, pos))
  ELSE [effects |-> <<>>,
        err |-> ParseError("Unexpected token after dialogue text or effects", <<>>)]

DialogueOf(tokens, r) ==
  IF r.err # NoParseError THEN NotMatched(r.err)
  ELSE Matched(DialogueElement(tokens[2][2], tokens[4][2], r.effects))

match_dialogue(tokens) ==
  IF ~(/\ Len(tokens) >= 4
       /\ tokens[1][1] = "DIALOGUE" /\ tokens[2][1] = "TEXT"
       /\ tokens[3][1] = "SEPARATOR" /\ tokens[4][1] = "TEXT") THEN
    IF Len(tokens) > 0 /\ tokens[1][1] = "DIALOGUE"
      THEN NotMatched(ParseError("Invalid dialogue format", <<>>))
      ELSE NotMatched(NoParseError)
  ELSE DialogueOf(tokens, DialogueEffectsFrom(tokens, 5, <<>>))

\* the while loop of _match_choice; c holds parsed_destination,
\* parsed_condition_str, parsed_effects (found_condition_block is
\* condition # NoneStr); b is what _parse_bracket_content returned
RECURSIVE ChoicePartsFrom(_, _, _)
RECURSIVE ChoiceAfterBracket(_, _, _)
\* the first block taken as found only when it has content
\* ("if not parsed_condition_str" in place of the flag)
ChoiceAfterBracketFalsy(tokens, c, b) ==
  IF b.err # NoParseError THEN [parts |-> c, err |-> b.err]
  ELSE ChoicePartsFrom(tokens, b.next,
         IF c.condition = NoneStr \/ c.condition = Some(<<>>)
           THEN [c EXCEPT !.condition = Some(b.content)]
           ELSE [c EXCEPT !.effects = Append(@, b.content)])

ChoiceAfterBracket(tokens, c, b) ==
  IF b.err # NoParseError THEN [parts |-> c, err |-> b.err]
  ELSE ChoicePartsFrom(tokens, b.next,
         IF c.condition = NoneStr
           THEN [c EXCEPT !.condition = Some(b.content)]
           ELSE [c EXCEPT !.effects = Append(@, b.content)])

ChoicePartsFrom(tokens, pos, c) ==
  IF pos > Len(tokens) THEN [parts |-> c, err |-> NoParseError]
  ELSE IF tokens[pos][1] = "TRANSITION" THEN
    IF c.transition # NoneStr
      THEN [parts |-> c, err |-> ParseError("Multiple transitions", <<>>)]
    ELSE IF pos + 1 > Len(tokens) \/ tokens[pos + 1][1] # "TEXT"
      THEN [parts |-> c, err |-> ParseError("Missing destination scene name", <<>>)]
    ELSE ChoicePartsFrom(tokens, pos + 2,
                         [c EXCEPT !.transition = Some(tokens[pos + 1][2])])
  ELSE IF tokens[pos][1] = "OPEN_BRACKET"
    THEN ChoiceAfterBracket(tokens, c, parse_bracket_content(tokens, pos))
  ELSE [parts |-> c, err |-> ParseError("Unexpected token in choice definition", <<>>)]

ChoiceOf(tokens, r) ==
  IF r.err # NoParseError THEN NotMatched(r.err)
  ELSE Matched(ChoiceElement(Len(tokens[1][2]), tokens[2][2],
                             r.parts.transition, r.parts.condition,
                             r.parts.effects))

match_choice(tokens) ==
  IF tokens = <<>> \/ tokens[1][1] # "CHOICE" THEN NotMatched(NoParseError)
  ELSE IF Len(tokens) < 2 \/ tokens[2][1] # "TEXT"
    THEN NotMatched(ParseError("Missing text after choice marker", <<>>))
  ELSE ChoiceOf(tokens,
         ChoicePartsFrom(tokens, 3,
           [transition |-> NoneStr, condition |-> NoneStr, effects |-> <<>>]))

\* _parse_condition: Condition(representation)
parse_condition(condition_tokens) ==
  Join([i \in 1..Len(condition_tokens) |-> condition_tokens[i][2]])

\* what a matcher or _parse_if_block hands back: the element, the number of
\* lines it took and the error raised, if any
Parsed(m, consumed) == [elem |-> m.elem, consumed |-> consumed, err |-> m.err]
IfFailed(err) == [elem |-> NoElement, consumed |-> 0, err |-> err]

\* the loop's variables after the @if line at index start_line_idx
IfStart(L, start_line_idx) ==
  [idx |-> start_line_idx + 1, consumed |-> 1, parsing_if_branch |-> TRUE,
   condition |-> parse_condition(Tail(L[start_line_idx])),
   if_block |-> <<>>, has_else |-> FALSE, else_block |-> <<>>]

MissingCondition(N, start_line_idx) ==
  IfFailed(ParseError("Missing condition after @if", <<N[start_line_idx]>>))

\* _parse_if_block on the lines L with the file line numbers N, from the
\* @if line at index start_line_idx.  s holds the loop's variables; a nested
\* @if is the same procedure started at its own line; m is what the line at
\* s.idx parsed to.
RECURSIVE IfBlockFrom(_, _, _, _)
RECURSIVE IfBlockAfter(_, _, _, _, _)
\* going on at the next line whatever number of lines the element took
IfBlockAfterOneLine(L, N, start_line_idx, s, m) ==
  IF m.err # NoParseError THEN IfFailed(NearLine(m.err, N[s.idx]))
  ELSE IfBlockFrom(L, N, start_line_idx,
         [s EXCEPT
            !.idx = @ + 1,
            !.consumed = @ + 1,
            !.if_block = IF s.parsing_if_branch THEN Append(@, m.elem) ELSE @,
            !.else_block = IF s.parsing_if_branch THEN @ ELSE Append(@, m.elem)])

\* every element put into the if_block, after an @else too
IfBlockAfterIfBranch(L, N, start_line_idx, s, m) ==
  IF m.err # NoParseError THEN IfFailed(NearLine(m.err, N[s.idx]))
  ELSE IfBlockFrom(L, N, start_line_idx,
         [s EXCEPT
            !.idx = @ + m.consumed,
            !.consumed = @ + 1 + m.consumed - 1,
            !.if_block = Append(@, m.elem)])

IfBlockAfter(L, N, start_line_idx, s, m) ==
  IF m.err # NoParseError THEN IfFailed(NearLine(m.err, N[s.idx]))
  ELSE IfBlockFrom(L, N, start_line_idx,
         [s EXCEPT
            !.idx = @ + m.consumed,
            !.consumed = @ + 1 + m.consumed - 1,
            !.if_block = IF s.parsing_if_branch THEN Append(@, m.elem) ELSE @,
            !.else_block = IF s.parsing_if_branch THEN @ ELSE Append(@, m.elem)])

IfBlockFrom(L, N, start_line_idx, s) ==
  IF s.idx > Len(L)
    THEN IfFailed(ParseError("Unterminated '@if' block", <<N[start_line_idx]>>))
  ELSE IF L[s.idx] = <<>>
    THEN IfBlockFrom(L, N, start_line_idx,
                     [s EXCEPT !.idx = @ + 1, !.consumed = @ + 1])
  ELSE IF L[s.idx][1][1] = "ELSE" THEN
    IF ~s.parsing_if_branch
      THEN IfFailed(ParseError("Unexpected '@else'", <<N[s.idx]>>))
    ELSE IF Len(L[s.idx]) > 1
      THEN IfFailed(ParseError("Unexpected tokens after '@else'", <<N[s.idx]>>))
    ELSE IfBlockFrom(L, N, start_line_idx,
           [s EXCEPT !.idx = @ + 1, !.consumed = @ + 1,
                     !.parsing_if_branch = FALSE, !.has_else = TRUE])
  ELSE IF L[s.idx][1][1] = "ENDIF" THEN
    IF Len(L[s.idx]) > 1
      THEN IfFailed(ParseError("Unexpected tokens after '@endif'", <<N[s.idx]>>))
      ELSE [elem |-> IfElement(s.condition, s.if_block, s.has_else, s.else_block),
            consumed |-> s.consumed + 1, err |-> NoParseError]
  ELSE IF L[s.idx][1][1] = "IF" THEN
    IF Len(L[s.idx]) < 2
      THEN IfBlockAfter(L, N, start_line_idx, s, MissingCondition(N, s.idx))
      ELSE IfBlockAfter(L, N, start_line_idx, s,
                        IfBlockFrom(L, N, s.idx, IfStart(L, s.idx)))
  ELSE IF L[s.idx][1][1] = "DIALOGUE"
    THEN IfBlockAfter(L, N, start_line_idx, s, Parsed(match_dialogue(L[s.idx]), 1))
  ELSE IF L[s.idx][1][1] = "CHOICE"
    THEN IfBlockAfter(L, N, start_line_idx, s, Parsed(match_choice(L[s.idx]), 1))
  ELSE IF L[s.idx][1][1] = "SCENE"
    THEN IfBlockAfter(L, N, start_line_idx, s,
           IfFailed(ParseError("Cannot define a scene inside an '@if' block",
                               <<N[s.idx]>>)))
  ELSE IfBlockAfter(L, N, start_line_idx, s,
         IfFailed(ParseError("Unexpected token sequence within @if block",
                             <<N[s.idx]>>)))

parse_if_block(L, N, start_line_idx) ==
  IF Len(L[start_line_idx]) < 2 THEN MissingCondition(N, start_line_idx)
  ELSE IfBlockFrom(L, N, start_line_idx, IfStart(L, start_line_idx))

\* parse_scene from the line after the @scene line: the index of the line
\* that ended the scene and the content gathered; m is what the line at idx
\* parsed to
RECURSIVE SceneFrom(_, _, _, _)
RECURSIVE SceneAfter(_, _, _, _, _)
SceneAfter(L, N, idx, content, m) ==
  IF m.err # NoParseError
    THEN [idx |-> idx, content |-> <<>>, err |-> NearLine(m.err, N[idx])]
    ELSE SceneFrom(L, N, idx + m.consumed, Append(content, m.elem))

SceneFrom(L, N, idx, content) ==
  IF idx > Len(L) THEN [idx |-> idx, content |-> content, err |-> NoParseError]
  ELSE IF L[idx] = <<>> THEN SceneFrom(L, N, idx + 1, content)
  ELSE IF L[idx][1][1] = "SCENE"
    THEN [idx |-> idx, content |-> content, err |-> NoParseError]
  ELSE IF L[idx][1][1] = "IF"
    THEN SceneAfter(L, N, idx, content, parse_if_block(L, N, idx))
  ELSE IF L[idx][1][1] = "DIALOGUE"
    THEN SceneAfter(L, N, idx, content, Parsed(match_dialogue(L[idx]), 1))
  ELSE IF L[idx][1][1] = "CHOICE"
    THEN SceneAfter(L, N, idx, content, Parsed(match_choice(L[idx]), 1))
  ELSE IF L[idx][1][1] \in {"ELSE", "ENDIF"}
    THEN SceneAfter(L, N, idx, content,
           IfFailed(ParseError("Unexpected directive outside of an '@if' block", <<>>)))
  ELSE SceneAfter(L, N, idx, content,
         IfFailed(ParseError("Unexpected token sequence", <<>>)))

SceneOf(scene_element, r) ==
  [idx |-> r.idx, scene |-> SceneElement(scene_element.scene_name, r.content),
   err |-> r.err]

parse_scene(L, N, scene_element, start_line_idx) ==
  SceneOf(scene_element, SceneFrom(L, N, start_line_idx, scene_element.content))

\* the loop of parse; m is what _match_scene made of the line at idx and r
\* what parse_scene returned for that scene
RECURSIVE ParseFrom(_, _, _, _)
RECURSIVE ParseAfterScene(_, _, _, _, _)
ParseAfterScene(L, N, idx, scenes, r) ==
  IF r.err # NoParseError THEN [ast |-> <<>>, err |-> NearLine(r.err, N[idx])]
  ELSE ParseFrom(L, N, r.idx, Append(scenes, r.scene))

RECURSIVE ParseAfterMatch(_, _, _, _, _)
ParseAfterMatch(L, N, idx, scenes, m) ==
  IF m.err # NoParseError THEN [ast |-> <<>>, err |-> NearLine(m.err, N[idx])]
  ELSE IF m.elem = NoElement
    THEN [ast |-> <<>>,
          err |-> NearLine(ParseError("Expected '@scene' definition", <<>>), N[idx])]
  ELSE ParseAfterScene(L, N, idx, scenes, parse_scene(L, N, m.elem, idx + 1))

ParseFrom(L, N, idx, scenes) ==
  IF idx > Len(L) THEN [ast |-> scenes, err |-> NoParseError]
  ELSE IF L[idx] = <<>> THEN ParseFrom(L, N, idx + 1, scenes)
  ELSE ParseAfterMatch(L, N, idx, scenes, match_scene(L[idx]))

\* dict.keys() in insertion order: tokenize inserts by rising line number
RECURSIVE SortedKeys(_)
SortedKeys(keys) ==
  IF keys = {} THEN <<>>
  ELSE LET k == CHOOSE x \in keys : \A y \in keys : x <= y IN
       <<k>> \o SortedKeys(keys \ {k})

\* list(token_lines.values())
LinesOf(token_lines, N) == [i \in 1..Len(N) |-> token_lines[N[i]]]

\* TalesParser(token_lines).parse()
parse(token_lines) ==
  ParseFrom(LinesOf(token_lines, SortedKeys(DOMAIN token_lines)),
            SortedKeys(DOMAIN token_lines), 1, <<>>)

\* ====================================================== TalesRunner.__init__
\* on what the parser returned

\* hasattr(element, 'element_id') and element.element_id is not None
HasElementId(element) == "element_id" \in DOMAIN element

\* the elements a container holds: the content of a Scene, both branches of
\* an If
Children(element) ==
  IF "content" \in DOMAIN element THEN element.content
  ELSE IF element.kind = "If" THEN element.if_block \o element.else_block
  ELSE <<>>

\* _build_element_map: an element without an id is left out, and so is
\* everything below it
RECURSIVE build_element_map(_, _)
build_element_map(queue, element_map) ==
  IF queue = <<>> THEN element_map
  ELSE IF HasElementId(Head(queue))
    THEN build_element_map(Tail(queue) \o Children(Head(queue)),
                           element_map \cup {Head(queue).element_id})
  ELSE build_element_map(Tail(queue), element_map)

\* _set_initial_element: the id set, or the exception the attribute access
\* raises
set_initial_element(scenes) ==
  IF scenes # <<>> /\ scenes[1].content # <<>> THEN
    IF "element_id" \in DOMAIN scenes[1].content[1]
      THEN [exc |-> "", current_element_id |-> scenes[1].content[1].element_id]
      ELSE [exc |-> "AttributeError", current_element_id |-> NoneId]
  ELSE [exc |-> "", current_element_id |-> NoneId]

\* ============================================ lexer and parser on their own
\* unit = [kind, stage, lines, lexed, parsed, built]: a script text, then what
\* tokenize made of it, then what parse made of the tokens, then what the
\* construction of a TalesRunner made of the AST.

\* most chunks a one-line text is put together from
MaxChunks == 3
\* most parts that follow the text of a choice line
MaxPieces == 4
\* most lines below the first @scene line of a structured text
MaxLines == 5
\* most lines of a text of mixed good, empty and bad lines
MaxTextLines == 3
\* most lines below the first @if line of a text of nested blocks
MaxNested == 4
\* most parts of nested brackets that follow the text of a choice line
MaxBrackets == 4

SeqsUpTo(S, n) == UNION {[1..k -> S] : k \in 0..n}

Chunks ==
  {AtScene, AtIf, AtElse, AtEndif, <<">">>, <<"*">>, <<"-", ">">>, <<" ">>,
   <<"a">>, <<":">>, <<"{">>, <<"}">>, <<"/", "/">>, <<"@">>}

LScene == AtScene \o <<" ", "s">>
LOther == AtScene \o <<" ", "t">>
LIf == AtIf \o <<" ", "c">>
LDialogue == <<">", " ", "a", ":", " ", "b">>
LChoice == <<"*", " ", "a">>
LComment == <<" ", "/", "/", " ", "x">>
LBlank == <<" ">>
LBad == <<"a">>

Pieces ==
  {<<" ", "-", ">", " ", "b">>, <<" ", "{", "}">>, <<" ", "{", "x", "}">>,
   <<" ", "{", "y", "}">>, <<" ", ":">>, <<" ", "z">>}

\* the parts of a choice line whose brackets nest or stay open
BracketPieces == {<<" ", "{">>, <<" ", "}">>, <<" ", "{", "x", "}">>}

Texts ==
  {<<Join(cs)>> : cs \in SeqsUpTo(Chunks, MaxChunks)}
    \cup {<<LScene, LChoice \o Join(ps)>> : ps \in SeqsUpTo(Pieces, MaxPieces)}
    \cup {<<LScene>> \o ls :
            ls \in SeqsUpTo({LIf, AtElse, AtEndif, LDialogue, LOther}, MaxLines)}
    \cup {<<LScene, LIf>> \o ls :
            ls \in SeqsUpTo({LIf, AtElse, AtEndif, LDialogue, LChoice}, MaxNested)}
    \cup {<<LScene, LChoice \o Join(ps)>> : ps \in SeqsUpTo(BracketPieces, MaxBrackets)}
    \cup SeqsUpTo({LBlank, LComment, LBad, LDialogue, LScene, <<"*", "a">>},
                  MaxTextLines)

NotYet == [exc |-> "not yet"]

InitText ==
  /\ RunnerIdle
  /\ \E lines \in Texts :
       unit = [kind |-> "text", stage |-> "text", lines |-> lines,
               lexed |-> NotYet, parsed |-> NotYet, built |-> NotYet]

\* TalesLexer.tokenize(text)
Tokenize ==
  /\ unit.kind = "text" /\ unit.stage = "text"
  /\ unit' = [unit EXCEPT !.stage = "lexed", !.lexed = tokenize(unit.lines)]
  /\ UNCHANGED runner

\* TalesParser(tokens).parse()
Parse ==
  /\ unit.kind = "text" /\ unit.stage = "lexed"
  /\ unit.lexed.exc = ""
  /\ unit' = [unit EXCEPT !.stage = "parsed",
                          !.parsed = parse(unit.lexed.all_tokens)]
  /\ UNCHANGED runner

\* TalesRunner(ast, ui) up to _set_initial_element
Construct ==
  /\ unit.kind = "text" /\ unit.stage = "parsed"
  /\ unit.parsed.err = NoParseError
  /\ unit' = [unit EXCEPT
       !.stage = "built",
       !.built = set_initial_element(unit.parsed.ast)
                   @@ [element_map |-> build_element_map(unit.parsed.ast, {})]]
  /\ UNCHANGED runner

NextText ==
  \/ Tokenize
  \/ Parse
  \/ Construct

SpecText == InitText /\ [][NextText]_vars

\* every element of a list of elements and below it
RECURSIVE TreeElements(_)
TreeElements(elements) ==
  IF elements = <<>> THEN {}
  ELSE {Head(elements)} \cup TreeElements(Children(Head(elements)))
         \cup TreeElements(Tail(elements))

\* how many elements a list of elements holds, those below them included
RECURSIVE CountElements(_)
CountElements(elements) ==
  IF elements = <<>> THEN 0
  ELSE 1 + CountElements(Children(Head(elements))) + CountElements(Tail(elements))

\* C26: every element of an AST that parse returned carries an identifier,
\* unique within the AST, and a parent reference, so that the construction of
\* a TalesRunner on that AST fills its identifier table with every element
\* and takes the first content element of the first scene as its current
\* element.
ParsedElementsIdentified ==
  (unit.kind = "text" /\ unit.stage = "built") =>
    /\ \A e \in TreeElements(unit.parsed.ast) :
         HasElementId(e) /\ "parent" \in DOMAIN e
    /\ unit.built.exc = ""
    /\ Cardinality(unit.built.element_map) = CountElements(unit.parsed.ast)
    /\ (unit.parsed.ast # <<>> /\ unit.parsed.ast[1].content # <<>>) =>
         unit.built.current_element_id = unit.parsed.ast[1].content[1].element_id

\* ---- the parts of a choice line, read off its tokens
\* the bracket depth before token i
Depth(toks, i) ==
  Cardinality({j \in 1..(i - 1) : toks[j][1] = "OPEN_BRACKET"})
    - Cardinality({j \in 1..(i - 1) : toks[j][1] = "CLOSE_BRACKET"})

\* the opening brackets outside any block, the transition markers outside any
\* block
BlockStarts(toks) ==
  {i \in 1..Len(toks) : toks[i][1] = "OPEN_BRACKET" /\ Depth(toks, i) = 0}
TransitionsAt(toks) ==
  {i \in 1..Len(toks) : toks[i][1] = "TRANSITION" /\ Depth(toks, i) = 0}

\* the closing bracket of the block opened at i
BlockEnd(toks, i) ==
  CHOOSE j \in (i + 1)..Len(toks) :
    /\ toks[j][1] = "CLOSE_BRACKET" /\ Depth(toks, j) = 1
    /\ \A k \in (i + 1)..(j - 1) :
         ~(toks[k][1] = "CLOSE_BRACKET" /\ Depth(toks, k) = 1)

\* the text between the brackets of the block opened at i
BlockContent(toks, i) ==
  Strip(Join([k \in 1..(BlockEnd(toks, i) - i - 1) |-> toks[i + k][2]]))

\* nothing but blocks and at most one transition with its destination
WellFormedChoice(toks) ==
  /\ \A i \in 1..(Len(toks) + 1) : Depth(toks, i) >= 0
  /\ Depth(toks, Len(toks) + 1) = 0
  /\ Cardinality(TransitionsAt(toks)) <= 1
  /\ \A i \in TransitionsAt(toks) : i + 1 <= Len(toks) /\ toks[i + 1][1] = "TEXT"
  /\ \A i \in 1..Len(toks) :
       Depth(toks, i) = 0 =>
         \/ toks[i][1] \in {"OPEN_BRACKET", "TRANSITION"}
         \/ toks[i][1] = "TEXT" /\ (i - 1) \in TransitionsAt(toks)

\* a script of a @scene line and one choice line with its marker and text has
\* been lexed and handed to the parser
ChoiceLineParsed ==
  /\ unit.kind = "text" /\ unit.stage \in {"parsed", "built"}
  /\ DOMAIN unit.lexed.all_tokens = {1, 2}
  /\ Len(unit.lexed.all_tokens[1]) = 2
  /\ unit.lexed.all_tokens[1][1][1] = "SCENE"
  /\ unit.lexed.all_tokens[1][2][1] = "TEXT"
  /\ Len(unit.lexed.all_tokens[2]) >= 2
  /\ unit.lexed.all_tokens[2][1][1] = "CHOICE"
  /\ unit.lexed.all_tokens[2][2][1] = "TEXT"

\* the tokens after the choice text
AfterChoiceText ==
  SubSeq(unit.lexed.all_tokens[2], 3, Len(unit.lexed.all_tokens[2]))

\* the condition of a parsed choice as the runner's _handle_choice_start
\* sees it: None, or the fields of the string; an empty string has the one
\* field "", and no other block content of these texts names a condition
\* type
ConditionFields(e) ==
  IF e.condition = NoneStr THEN [condition |-> NoneStr]
  ELSE IF e.condition[1] = <<>> THEN [condition |-> Some(<<"">>)]
  ELSE [condition |-> Some(<<"x">>)]

ChoicePartsAsWritten(toks, e, starts) ==
  /\ e.kind = "Choice"
  /\ e.condition = IF starts = <<>> THEN NoneStr
                   ELSE Some(BlockContent(toks, starts[1]))
  /\ e.effects = [k \in 1..(Len(starts) - 1) |-> BlockContent(toks, starts[k + 1])]
  /\ e.transition = IF TransitionsAt(toks) = {} THEN NoneStr
                    ELSE Some(toks[(CHOOSE t \in TransitionsAt(toks) : TRUE) + 1][2])
  /\ (starts # <<>> /\ BlockContent(toks, starts[1]) = <<>>) =>
       ChoiceCondition(ConditionFields(e), EmptyGameState) = "True"

\* C27: after the marker and the text of a choice line, transitions and
\* bracketed blocks come in any order: the line parses exactly when what
\* follows is blocks and at most one transition; the content of the first
\* block is the condition even when it is empty (and an empty condition
\* leaves the choice available), every later block is one effect, in the
\* order written, and the transition names the destination.
ChoiceLineParts ==
  ChoiceLineParsed =>
    /\ (unit.parsed.err = NoParseError) <=> WellFormedChoice(AfterChoiceText)
    /\ unit.parsed.err = NoParseError =>
         ChoicePartsAsWritten(AfterChoiceText, unit.parsed.ast[1].content[1],
                              SortedKeys(BlockStarts(AfterChoiceText)))

\* "* a {} -> b {x} {y}" has been parsed: an empty condition, a transition
\* between the blocks and two effects
EmptyConditionChoiceParsed ==
  /\ ChoiceLineParsed
  /\ unit.lines[2] = LChoice \o <<" ", "{", "}">> \o <<" ", "-", ">", " ", "b">>
                       \o <<" ", "{", "x", "}">> \o <<" ", "{", "y", "}">>
  /\ unit.parsed.err = NoParseError
  /\ unit.parsed.ast[1].content[1].condition = Some(<<>>)
  /\ unit.parsed.ast[1].content[1].effects = << <<"x">>, <<"y">> >>
  /\ unit.parsed.ast[1].content[1].transition = Some(<<"b">>)

\* ---- the block structure of a script, read off its lines
\* the lines that gave tokens, as the marker each begins with
LineKinds(all_tokens) ==
  [i \in 1..Cardinality(DOMAIN all_tokens) |->
     all_tokens[SortedKeys(DOMAIN all_tokens)[i]][1][1]]

\* a line that is in order taken by itself
LineInOrder(tokens) ==
  CASE tokens[1][1] = "SCENE" -> Len(tokens) = 2 /\ tokens[2][1] = "TEXT"
    [] tokens[1][1] = "IF" -> Len(tokens) >= 2
    [] tokens[1][1] \in {"ELSE", "ENDIF"} -> Len(tokens) = 1
    [] tokens[1][1] = "DIALOGUE" -> match_dialogue(tokens).err = NoParseError
    [] tokens[1][1] = "CHOICE" -> match_choice(tokens).err = NoParseError
    [] OTHER -> FALSE

NoOffence == [found |-> FALSE, at |-> 0, why |-> ""]
Offence(at, why) == [found |-> TRUE, at |-> at, why |-> why]

\* the first line that breaks the block structure, reading the markers K from
\* line i on with the @if blocks still open (the line of each and whether its
\* @else has been seen), innermost last
RECURSIVE Scan(_, _, _)
Scan(K, i, open) ==
  IF i > Len(K) THEN
    IF open = <<>> THEN NoOffence
    ELSE Offence(open[Len(open)].at, "@if not closed")
  ELSE IF K[i] = "IF"
    THEN Scan(K, i + 1, Append(open, [at |-> i, else_seen |-> FALSE]))
  ELSE IF K[i] = "ELSE" THEN
    IF open = <<>> THEN Offence(i, "@else outside @if")
    ELSE IF open[Len(open)].else_seen THEN Offence(i, "second @else")
    ELSE Scan(K, i + 1, [open EXCEPT ![Len(open)].else_seen = TRUE])
  ELSE IF K[i] = "ENDIF" THEN
    IF open = <<>> THEN Offence(i, "@endif outside @if")
    ELSE Scan(K, i + 1, SubSeq(open, 1, Len(open) - 1))
  ELSE IF K[i] = "SCENE" /\ open # <<>> THEN Offence(i, "@scene inside @if")
  ELSE Scan(K, i + 1, open)

\* the markers of the lines a list of elements was parsed from
RECURSIVE Unparse(_)
Unparse(elements) ==
  IF elements = <<>> THEN <<>>
  ELSE (IF "content" \in DOMAIN Head(elements)
          THEN <<"SCENE">> \o Unparse(Head(elements).content)
        ELSE IF Head(elements).kind = "If"
          THEN <<"IF">> \o Unparse(Head(elements).if_block)
                 \o (IF Head(elements).has_else
                       THEN <<"ELSE">> \o Unparse(Head(elements).else_block)
                       ELSE <<>>)
                 \o <<"ENDIF">>
        ELSE IF Head(elements).kind = "Dialogue" THEN <<"DIALOGUE">>
        ELSE <<"CHOICE">>)
       \o Unparse(Tail(elements))

\* a script that begins with a @scene line and whose lines are each in order
\* has been lexed and handed to the parser
StructuredParsed ==
  /\ unit.kind = "text" /\ unit.stage \in {"parsed", "built"}
  /\ unit.lexed.all_tokens # EmptyDict
  /\ LineKinds(unit.lexed.all_tokens)[1] = "SCENE"
  /\ \A n \in DOMAIN unit.lexed.all_tokens : LineInOrder(unit.lexed.all_tokens[n])

BlocksAsScanned(K, N, found, err, scenes) ==
  /\ (err.exc = "ValueError") <=> found.found
  /\ found.found =>
       /\ err.lines # <<>>
       /\ \A i \in 1..Len(err.lines) : InSeq(err.lines[i], N)
       /\ err.lines[Len(err.lines)] = N[found.at]
  /\ ~found.found => Unparse(scenes) = K

\* C28: parsing fails, with an error that names the source line, when @else
\* or @endif stands outside every open @if, when an @if meets a second @else,
\* when @scene stands inside an open @if and when the input ends with an @if
\* open (the line named last is the offending one, for an open @if its own
\* line); it succeeds on properly closed blocks however nested, and the tree
\* it returns has each @else and @endif at the innermost @if open there.
IfBlocksChecked ==
  StructuredParsed =>
    BlocksAsScanned(LineKinds(unit.lexed.all_tokens),
                    SortedKeys(DOMAIN unit.lexed.all_tokens),
                    Scan(LineKinds(unit.lexed.all_tokens), 1, <<>>),
                    unit.parsed.err, unit.parsed.ast)

\* an @if nested in an @if has been parsed, the @else between them bound to
\* the inner one
NestedElseBound ==
  /\ StructuredParsed
  /\ unit.lines = <<LScene, LIf, LIf, AtElse, AtEndif, AtEndif>>
  /\ unit.parsed.err = NoParseError
  /\ ~unit.parsed.ast[1].content[1].has_else
  /\ unit.parsed.ast[1].content[1].if_block[1].has_else

\* a second @else has been refused with its line, the fourth, named
SecondElseRefused ==
  /\ StructuredParsed
  /\ unit.lines = <<LScene, LIf, AtElse, AtElse, AtEndif>>
  /\ unit.parsed.err.exc = "ValueError"
  /\ unit.parsed.err.lines = <<1, 2, 4>>

\* ---- what follows a marker, read off the characters of a line
SpaceAt(ln, p) == p <= Len(ln) /\ ln[p] \in Whitespace
NonSpaceAt(ln, p) == p <= Len(ln) /\ ln[p] \notin Whitespace
StartsAt(ln, p, m) ==
  p + Len(m) - 1 <= Len(ln) /\ SubSeq(ln, p, p + Len(m) - 1) = m

\* the first character that is no whitespace (Len + 1 if there is none)
FirstNonSpace(ln) ==
  CHOOSE p \in 1..(Len(ln) + 1) :
    /\ ~SpaceAt(ln, p)
    /\ \A k \in 1..(p - 1) : SpaceAt(ln, k)

Directives == {AtScene, AtIf, AtElse, AtEndif}

\* the position after the marker the line begins with at ip: a directive,
\* '>' or a run of '*'; 0 if it begins with none of them
AfterLeadMarker(ln, ip) ==
  IF \E m \in Directives : StartsAt(ln, ip, m)
    THEN ip + Len(CHOOSE m \in Directives : StartsAt(ln, ip, m))
  ELSE IF StartsAt(ln, ip, <<">">>) THEN ip + 1
  ELSE IF StartsAt(ln, ip, <<"*">>)
    THEN CHOOSE p \in (ip + 1)..(Len(ln) + 1) :
           /\ ~StartsAt(ln, p, <<"*">>)
           /\ \A k \in ip..(p - 1) : ln[k] = "*"
  ELSE 0

\* where the comment of the line begins (Len + 1 if it has none)
CommentAt(ln, ip) ==
  CHOOSE c \in (ip + 1)..(Len(ln) + 1) :
    /\ c = Len(ln) + 1 \/ StartsAt(ln, c, <<"/", "/">>)
    /\ \A k \in (ip + 1)..(c - 1) : ~StartsAt(ln, k, <<"/", "/">>)

\* the transition markers of the line: every "->" after its first character
\* and before its comment
TransitionMarkers(ln, ip) ==
  {q \in (ip + 1)..Len(ln) : StartsAt(ln, q, <<"-", ">">>) /\ q < CommentAt(ln, ip)}

\* line i of the text has been lexed / has been refused
LineLexed(i) == unit.lexed.exc = "" \/ i <= unit.lexed.line
LineRefused(i) == unit.lexed.exc # "" /\ i = unit.lexed.line

\* the rule of the code for the marker a line begins with: a directive needs
\* whitespace or the end of the line after it, '>' needs whitespace, a run
\* of '*' needs nothing
LeadRefused(ln, ip) ==
  \/ (\E m \in Directives : StartsAt(ln, ip, m)) /\ NonSpaceAt(ln, AfterLeadMarker(ln, ip))
  \/ StartsAt(ln, ip, <<">">>) /\ ~SpaceAt(ln, ip + 1)

\* the transition markers not followed by whitespace
BadTransitions(ln, ip) ==
  {q \in TransitionMarkers(ln, ip) : ~SpaceAt(ln, q + 2)}

Least(S) == CHOOSE x \in S : \A y \in S : x <= y

MarkerRule(ln, ip, refused, err) ==
  AfterLeadMarker(ln, ip) # 0 =>
    /\ refused <=> (LeadRefused(ln, ip) \/ BadTransitions(ln, ip) # {})
    /\ LeadRefused(ln, ip) =>
         /\ err.msg = IF StartsAt(ln, ip, <<">">>)
                        THEN "Missing whitespace after dialogue"
                        ELSE "Unexpected character after directive"
         /\ err.pos = IF StartsAt(ln, ip, <<">">>) THEN ip - 1
                      ELSE AfterLeadMarker(ln, ip) - 1
    /\ (~LeadRefused(ln, ip) /\ BadTransitions(ln, ip) # {}) =>
         /\ err.msg = "Missing whitespace after transition"
         /\ err.pos = Least(BadTransitions(ln, ip)) - 1

\* C29 as amended: a line that begins with @scene, @if, @else or @endif is
\* accepted with respect to that marker exactly when whitespace or the end
\* of the line follows it; one that begins with '>' exactly when whitespace
\* follows it; one that begins with a run of '*' whatever follows; and a
\* "->" further on in the line exactly when whitespace follows it.  Every
\* refusal is an error that names the position: of the character after a
\* directive, of the '>', of the "->".
MarkerRules ==
  (unit.kind = "text" /\ unit.stage # "text") =>
    \A i \in 1..Len(unit.lines) :
      LineLexed(i) =>
        MarkerRule(unit.lines[i], FirstNonSpace(unit.lines[i]),
                   LineRefused(i), unit.lexed.err)

\* the rule as first stated, for every marker alike: refused at the marker
\* exactly when a character that is no whitespace follows it
SpaceOrEndRule(ln, ip, refused, err) ==
  AfterLeadMarker(ln, ip) # 0 =>
    /\ NonSpaceAt(ln, AfterLeadMarker(ln, ip)) =>
         refused /\ err.pos <= AfterLeadMarker(ln, ip) - 1
    /\ ~NonSpaceAt(ln, AfterLeadMarker(ln, ip)) =>
         /\ refused => err.pos >= AfterLeadMarker(ln, ip)
         /\ refused <=> \E q \in TransitionMarkers(ln, ip) : NonSpaceAt(ln, q + 2)

\* C29: for each marker (@scene, @if, @else, @endif, '>', a run of '*',
\* "->") a line is accepted with respect to the marker exactly when
\* whitespace or the end of the line follows the marker immediately, and is
\* refused with an error that names the position otherwise.
MarkerNeedsSpaceOrEnd ==
  (unit.kind = "text" /\ unit.stage # "text") =>
    \A i \in 1..Len(unit.lines) :
      LineLexed(i) =>
        SpaceOrEndRule(unit.lines[i], FirstNonSpace(unit.lines[i]),
                       LineRefused(i), unit.lexed.err)

\* '>' alone on its line has been refused, with its position named
MarkerAtEndRefused ==
  /\ unit.kind = "text" /\ unit.stage = "lexed"
  /\ unit.lines = << <<">">> >>
  /\ unit.lexed.exc = "ValueError"
  /\ unit.lexed.err = [msg |-> "Missing whitespace after dialogue", pos |-> 0]

\* ---- which lines of a text lex, read off their characters
\* nothing but whitespace, or a comment after it
BlankOrComment(ln) ==
  \/ FirstNonSpace(ln) = Len(ln) + 1
  \/ StartsAt(ln, FirstNonSpace(ln), <<"/", "/">>)

\* the line begins with something that is no marker, or breaks the rule of
\* one of its markers
LineFails(ln) ==
  /\ ~BlankOrComment(ln)
  /\ \/ AfterLeadMarker(ln, FirstNonSpace(ln)) = 0
     \/ LeadRefused(ln, FirstNonSpace(ln))
     \/ BadTransitions(ln, FirstNonSpace(ln)) # {}

FailingLines(lines) == {i \in 1..Len(lines) : LineFails(lines[i])}

\* C30: if a line of the script fails to lex, tokenize raises an error that
\* names the 1-based number of that line (the first such line) and gives no
\* mapping; otherwise the mapping holds exactly the lines that gave at least
\* one token, under their 1-based numbers: blank lines and comment lines
\* are left out.
TokenizeAllOrNothing ==
  (unit.kind = "text" /\ unit.stage # "text") =>
    /\ (unit.lexed.exc = "ValueError") <=> FailingLines(unit.lines) # {}
    /\ unit.lexed.exc = "ValueError" =>
         /\ unit.lexed.line = Least(FailingLines(unit.lines))
         /\ unit.lexed.all_tokens = EmptyDict
    /\ unit.lexed.exc = "" =>
         /\ DOMAIN unit.lexed.all_tokens =
              {i \in 1..Len(unit.lines) : ~BlankOrComment(unit.lines[i])}
         /\ \A i \in DOMAIN unit.lexed.all_tokens :
              /\ unit.lexed.all_tokens[i] # <<>>
              /\ unit.lexed.all_tokens[i] = tokenize_line(unit.lines[i]).tokens

\* a text whose third line begins with a letter has been refused with that
\* line named, after a blank line and a dialogue line that lexed
ThirdLineRefused ==
  /\ unit.kind = "text" /\ unit.stage = "lexed"
  /\ unit.lines = <<LBlank, LDialogue, LBad>>
  /\ unit.lexed.exc = "ValueError" /\ unit.lexed.line = 3
  /\ unit.lexed.err.msg = "Unexpected token at beginning of line"
  /\ unit.lexed.all_tokens = EmptyDict

\* a comment, a dialogue and a blank line have been lexed: line 2 alone is
\* in the mapping
OnlySecondLineKept ==
  /\ unit.kind = "text" /\ unit.stage = "lexed"
  /\ unit.lines = <<LComment, LDialogue, LBlank>>
  /\ unit.lexed.exc = ""
  /\ DOMAIN unit.lexed.all_tokens = {2}

\* ================================================ the runner, further claims
\* C31: an undo made right after k >= 1 effect-applying actions (and nothing
\* else since the construction) succeeds, makes the element of the most recent
\* of those actions, the tag of the top history entry, the current element,
\* never none, so that the run goes on with it; after a single action the
\* live GameState is again the initial empty one.
UndoReplaysLastAction ==
  [][(/\ last'.op = "undo"
      /\ trail.shape = "acts" /\ trail.acts >= 1 /\ ~trail.loaded) =>
       /\ last'.arg = 1
       /\ current_element_id' = history[Len(history)].id
       /\ current_element_id' # NoneId
       /\ execution_active' /\ pc' = "loop"
       /\ trail.acts = 1 => heap'[game_state'] = EmptyGameState]_vars

\* ---- a play-through: a presentation layer that gives no meta-command
\* the scripts in which no choice names a transition
PlayScripts ==
  {n \in ScriptNames \cup PlayOnlyNames :
     \A i \in ElemIds(Script(n)) : Script(n).elems[i].transition = ""}

\* no choice of the presented group is available
NoneAvailable == \A i \in 1..Len(Shown) : ~Shown[i].available

\* the presentation layer shows no choice and continues: prompt_choice
\* returns None or 'next'
PlayContinue ==
  /\ Prompting
  /\ NoneAvailable
  /\ (ChoiceNone \/ ChoiceNext)

\* TalesRunner.__init__ on one of these scripts
InitPlay ==
  /\ script \in PlayScripts
  /\ current_element_id = InitialElement(ast)
  /\ game_state = 1
  /\ heap = [a \in {1} |-> EmptyGameState]
  /\ history = SaveHistorySnapshot(<<>>, 1, NoneId)
  /\ save_file = <<>>
  /\ execution_active = TRUE
  /\ pc = "start"
  /\ ui_log = <<>>
  /\ presented = <<>>
  /\ last = [op |-> "init", executed |-> NoneId, arg |-> NoneId]
  /\ trail = [shape |-> "acts", acts |-> 0, undos |-> 0, loaded |-> FALSE]
  /\ unit = NoUnit

\* dialogues are acknowledged, an available choice is selected whenever there
\* is one
NextPlay ==
  \/ RunEnter
  \/ ExecuteDialogue
  \/ ExecuteIf
  \/ ChoiceRaise
  \/ ChoiceSelect
  \/ PlayContinue
  \/ Finish

\* run() keeps executing while there is an element to execute
SpecPlay == InitPlay /\ [][NextPlay]_vars /\ WF_vars(NextPlay)

\* C32: a play-through of a script without transitions comes to its end
\* after finitely many element executions: the loop is left with no current
\* element.
PlayTerminates == <>(pc = "done" /\ current_element_id = NoneId)

\* ---- the parts of a Dialogue step
\* C33: the step that executes a Dialogue asks the presentation layer for
\* one display, before anything else it asks for; when at least one effect
\* expression resolved, the history grows by exactly one entry tagged with the
\* id of the Dialogue and the resolved effects are applied to the GameState
\* that the step found; when none resolved, GameState and history stay as
\* they were; the structural successor becomes the current element.
DialogueInOrder ==
  [][last'.op = "dialogue" =>
       LET id == last'.executed
           effs == ResolvedEffects(ast.elems[id].effects)
           displays == {k \in 1..Len(ui_log') :
                          ui_log'[k] \in {"display_dialogue", "display_dialogue_end"}}
       IN /\ displays = {1}
          /\ IF effs # <<>>
               THEN /\ history' = Append(history, history'[Len(history')])
                    /\ history'[Len(history')].id = id
                    /\ heap'[game_state'] = CompoundApply(effs, heap[game_state]).gs
               ELSE /\ history' = history
                    /\ heap'[game_state'] = heap[game_state]
          /\ current_element_id' = StructuralSuccessor(ast, id)]_vars

\* ---- whose effects a prompt applies
\* C34: a step at a choice prompt changes the GameState only when the
\* presentation layer returned the id of a choice whose condition was true on
\* the GameState the prompt was made on, and then the GameState is the one
\* that results from applying each resolved effect of that choice once, in
\* order; when the returned id belongs to an unavailable choice or to no
\* choice, GameState and history stay as they were and the structural
\* successor of the last element of the group becomes the current element.
OnlyChosenApplies ==
  [][/\ last'.op = "select" =>
          LET e == ast.elems[last'.arg] IN
          /\ InSeq(last'.arg, StructuralGroup(ast, last'.executed))
          /\ ChoiceCondition(e, heap[game_state]) = "True"
          /\ heap'[game_state'] =
               ApplyEach(ParseChoiceEffects(e.effects).effs, heap[game_state])
     /\ last'.op \in {"invalid", "none", "next", "raise"} =>
          /\ heap'[game_state'] = heap[game_state]
          /\ history' = history
     /\ last'.op = "invalid" =>
          LET G == StructuralGroup(ast, last'.executed) IN
          /\ \A i \in 1..Len(G) :
               G[i] = last'.arg =>
                 \/ ChoiceCondition(ast.elems[G[i]], heap[game_state]) # "True"
                 \/ ParseChoiceEffects(ast.elems[G[i]].effects).exc # ""
          /\ current_element_id' = StructuralSuccessor(ast, G[Len(G)])]_vars

\* ---- the tags of the history
\* C36: while no load has been made, the history holds at least one entry,
\* the bottom entry is tagged with no element, and every entry above it is
\* tagged with the id of a Dialogue or a Choice of the AST.
HistoryWellTagged ==
  ~trail.loaded =>
    /\ history # <<>>
    /\ history[1].id = NoneId
    /\ \A i \in 2..Len(history) :
         /\ history[i].id \in ElemIds(ast)
         /\ ast.elems[history[i].id].kind \in {"Dialogue", "Choice"}

\* after an undo the history has grown again and holds, above the initial
\* entry, entries of Dialogues and of Choices
TaggedAfterUndo ==
  /\ trail.undos >= 1
  /\ ~trail.loaded
  /\ Len(history) >= 4
  /\ \E i \in 2..Len(history) : ast.elems[history[i].id].kind = "Dialogue"
  /\ \E i \in 2..Len(history) : ast.elems[history[i].id].kind = "Choice"

\* ========================================================= ExecutionManager
\* The engine of execution_manager.py, driven through DialogueBox and
\* ChoiceBox: unit = [kind, script, current, running, gs, before, last] where
\* current is the id of ExecutionManager.current_element, running says that
\* run() has not returned, gs is the GameState object that the manager and
\* its two boxes share, before the GameState the last step found and last
\* what the last step did.  _get_next_sequential_element (lines 100-145) and
\* the grouping of lines 295-317 search their container with list.index as
\* the runner does, so SuccessorTable and GroupTable serve both engines.

\* ExecutionManager._apply_effects on the effect strings of an element: a
\* string that raises ValueError is skipped, any other exception leaves the
\* method before anything is applied
manager_apply_effects(sources, gs) ==
  LET p == ParseChoiceEffects(sources) IN
  IF p.exc # "" THEN [exc |-> p.exc, gs |-> gs]
  ELSE IF p.effs = <<>> THEN [exc |-> "", gs |-> gs]
  ELSE CompoundApply(p.effs, gs)

\* <Effect>.apply of the effect object of a Choice (None when no string
\* resolved)
apply_choice_effect(effs, gs) ==
  IF effs = <<>> THEN [exc |-> "", gs |-> gs] ELSE CompoundApply(effs, gs)

\* lines 323-355: the choices of the group for which a Choice object is made
\* (the except of line 354 drops a choice one of whose effect strings raised
\* something else than ValueError)
tae_choices(a, group) ==
  SelectSeq(group, LAMBDA id : ParseChoiceEffects(a.elems[id].effects).exc = "")

\* Choice.is_available for the Choice made in lines 325-352: a condition
\* string that Condition.create rejects leaves condition_obj = None, which
\* Choice.__init__ turns into the condition that always holds
is_available(e, gs) ==
  IF e.condition = NoneStr \/ e.condition[1] = <<"">> THEN "True"
  ELSE LET c == ConditionCreate(e.condition[1]) IN
       IF c.exc # "" THEN "True" ELSE ConditionCheck(c, gs)

\* ChoiceSet.get_available_choices
get_available_choices(a, choices, gs) ==
  SelectSeq(choices, LAMBDA id : is_available(a.elems[id], gs) = "True")

\* ChoiceBox.show called without a scene manager (line 369 passes none), the
\* user entering number k: the effect of the selected choice is applied to the
\* GameState of the box (lines 70-73) and the choice is returned
ChoiceBoxShow(a, valid, k, gs) ==
  [selected |-> valid[k],
   applied |-> apply_choice_effect(
                 ParseChoiceEffects(a.elems[valid[k]].effects).effs, gs)]

\* what a step of run() leaves: the next element, or the exception that ends
\* run()
Went(next_id, gs, op, arg) == [exc |-> "", next |-> next_id, gs |-> gs, op |-> op, arg |-> arg]
Threw(exc, gs, op) == [exc |-> exc, next |-> NoneId, gs |-> gs, op |-> op, arg |-> NoneId]

\* ExecutionManager._handle_choice_start after the user entered number k
ManagerChoiceOutcome(n, first, k, gs) ==
  LET a == Script(n)
      group == GroupTable[n][first]
      after == SuccessorTable[n][group[Len(group)]]
      choices == tae_choices(a, group)
      valid == get_available_choices(a, choices, gs)
  IN
  IF choices = <<>> THEN Went(after, gs, "none", NoneId)
  ELSE IF \E i \in 1..Len(choices) :
            is_available(a.elems[choices[i]], gs) \notin {"True", "False"}
    THEN Threw("Exception", gs, "choice")
  ELSE IF valid = <<>> THEN Went(after, gs, "none", NoneId)
  ELSE LET shown == ChoiceBoxShow(a, valid, k, gs)
           e == a.elems[shown.selected]
       IN IF shown.applied.exc # "" THEN Threw(shown.applied.exc, shown.applied.gs, "choice")
          ELSE LET r == apply_choice_effect(ParseChoiceEffects(e.effects).effs,
                                            shown.applied.gs)
               IN IF r.exc # "" THEN Threw(r.exc, r.gs, "choice")
                  ELSE Went(IF e.transition # "" THEN TransitionTarget(a, e.transition)
                            ELSE after,
                            r.gs, "select", shown.selected)

\* ExecutionManager._execute_dialogue
ManagerDialogueOutcome(n, id, gs) ==
  LET r == manager_apply_effects(Script(n).elems[id].effects, gs) IN
  IF r.exc # "" THEN Threw(r.exc, r.gs, "dialogue")
  ELSE Went(SuccessorTable[n][id], r.gs, "dialogue", NoneId)

\* ExecutionManager._execute_if: only ValueError is caught
ManagerIfOutcome(n, id, gs) ==
  LET e == Script(n).elems[id]
      c == ConditionCreate(e.condition[1])
      met == IF c.exc # "" THEN c.exc ELSE ConditionCheck(c, gs)
      after == SuccessorTable[n][id]
  IN
  IF met = "ValueError" THEN Went(after, gs, "if", NoneId)
  ELSE IF met \notin {"True", "False"} THEN Threw(met, gs, "if")
  ELSE IF met = "True"
    THEN Went(IF e.if_block # <<>> THEN e.if_block[1] ELSE after, gs, "if", NoneId)
  ELSE Went(IF e.has_else /\ e.else_block # <<>> THEN e.else_block[1] ELSE after,
            gs, "if", NoneId)

\* lines 199-200 and 204-210: the step of the loop
ManagerStep(r) ==
  /\ WithinBounds(r.gs, <<>>)
  /\ unit' = [unit EXCEPT
       !.current = IF r.exc = "" THEN r.next ELSE unit.current,
       !.running = (r.exc = ""),
       !.before = unit.gs,
       !.gs = r.gs,
       !.last = [op |-> IF r.exc = "" THEN r.op ELSE "raise",
                 executed |-> unit.current, arg |-> r.arg]]
  /\ UNCHANGED runner

ManagerAt(kind) ==
  /\ unit.kind = "manager"
  /\ unit.running
  /\ unit.current # NoneId
  /\ Script(unit.script).elems[unit.current].kind = kind

\* ExecutionManager.__init__ and set_start_point() on a script
InitManager ==
  /\ RunnerIdle
  /\ \E n \in ScriptNames \cup PlayOnlyNames :
       unit = [kind |-> "manager", script |-> n,
               current |-> InitialElement(Script(n)), running |-> TRUE,
               gs |-> EmptyGameState, before |-> EmptyGameState,
               last |-> [op |-> "init", executed |-> NoneId, arg |-> NoneId]]

ManagerExecuteDialogue ==
  /\ ManagerAt("Dialogue")
  /\ ManagerStep(ManagerDialogueOutcome(unit.script, unit.current, unit.gs))

ManagerExecuteIf ==
  /\ ManagerAt("If")
  /\ ManagerStep(ManagerIfOutcome(unit.script, unit.current, unit.gs))

\* the user enters the number of one of the choices shown, if any is shown
ManagerHandleChoice ==
  /\ ManagerAt("Choice")
  /\ \E k \in 1..Len(GroupTable[unit.script][unit.current]) :
       LET a == Script(unit.script)
           valid == get_available_choices(
                      a, tae_choices(a, GroupTable[unit.script][unit.current]),
                      unit.gs)
       IN /\ k <= Len(valid) \/ (k = 1 /\ valid = <<>>)
          /\ ManagerStep(ManagerChoiceOutcome(unit.script, unit.current, k, unit.gs))

\* lines 185-189 and 202: run() returns when there is no current element
ManagerConcluded ==
  /\ unit.kind = "manager"
  /\ unit.running
  /\ unit.current = NoneId
  /\ unit' = [unit EXCEPT !.running = FALSE, !.before = unit.gs,
                          !.last = [op |-> "concluded", executed |-> NoneId,
                                    arg |-> NoneId]]
  /\ UNCHANGED runner

NextManager ==
  \/ ManagerExecuteDialogue
  \/ ManagerExecuteIf
  \/ ManagerHandleChoice
  \/ ManagerConcluded

SpecManager == InitManager /\ [][NextManager]_vars

\* C35: when a choice has been selected in the ExecutionManager engine, the
\* GameState is the one that results from applying each resolved effect of
\* that choice once, in order, to the GameState the prompt was made on.
ManagerAppliesOnce ==
  (unit.kind = "manager" /\ unit.last.op = "select") =>
    unit.gs = ApplyEach(
                ParseChoiceEffects(Script(unit.script).elems[unit.last.arg].effects).effs,
                unit.before)

\* ================================================== the parser, further claims
\* ---- the tree of a script, read off its lines by nesting depth
\* the number of @if blocks open before line i
IfDepth(L, i) ==
  Cardinality({j \in 1..(i - 1) : L[j][1][1] = "IF"})
    - Cardinality({j \in 1..(i - 1) : L[j][1][1] = "ENDIF"})

\* the @endif line of the @if of line i
ClosingLine(L, i) ==
  CHOOSE j \in (i + 1)..Len(L) :
    /\ L[j][1][1] = "ENDIF" /\ IfDepth(L, j) = IfDepth(L, i) + 1
    /\ \A k \in (i + 1)..(j - 1) :
         ~(L[k][1][1] = "ENDIF" /\ IfDepth(L, k) = IfDepth(L, i) + 1)

\* the @else line of the @if of line i, 0 if it has none
ElseLine(L, i) ==
  LET S == {j \in (i + 1)..(ClosingLine(L, i) - 1) :
              L[j][1][1] = "ELSE" /\ IfDepth(L, j) = IfDepth(L, i) + 1}
  IN IF S = {} THEN 0 ELSE Least(S)

\* the list that the lines i..j stand for, one element for each dialogue,
\* choice and @if line that lies in no @if opened within i..j, in the order
\* of the lines; the lines of an @if up to its @else (or @endif) are its
\* if_block, those after its @else its else_block
RECURSIVE Stretch(_, _, _)
Stretch(L, i, j) ==
  IF i > j THEN <<>>
  ELSE IF L[i][1][1] = "IF" THEN
    << IfElement(parse_condition(Tail(L[i])),
                 Stretch(L, i + 1, IF ElseLine(L, i) = 0 THEN ClosingLine(L, i) - 1
                                   ELSE ElseLine(L, i) - 1),
                 ElseLine(L, i) # 0,
                 IF ElseLine(L, i) = 0 THEN <<>>
                 ELSE Stretch(L, ElseLine(L, i) + 1, ClosingLine(L, i) - 1)) >>
      \o Stretch(L, ClosingLine(L, i) + 1, j)
  ELSE IF L[i][1][1] = "DIALOGUE"
    THEN <<match_dialogue(L[i]).elem>> \o Stretch(L, i + 1, j)
  ELSE <<match_choice(L[i]).elem>> \o Stretch(L, i + 1, j)

\* the @scene lines, and the last line of the scene that begins at line s
SceneLines(L) == SortedKeys({i \in 1..Len(L) : L[i][1][1] = "SCENE"})
SceneEnd(L, s) ==
  IF \E t \in (s + 1)..Len(L) : L[t][1][1] = "SCENE"
    THEN Least({t \in (s + 1)..Len(L) : L[t][1][1] = "SCENE"}) - 1
    ELSE Len(L)

\* the scenes that the lines stand for
TreeOfLines(L) ==
  [k \in 1..Len(SceneLines(L)) |->
     SceneElement(L[SceneLines(L)[k]][2][2],
                  Stretch(L, SceneLines(L)[k] + 1, SceneEnd(L, SceneLines(L)[k])))]

\* a script has been lexed and the parser has accepted it
Accepted ==
  /\ unit.kind = "text" /\ unit.stage \in {"parsed", "built"}
  /\ unit.parsed.err = NoParseError

LinesPlaced(all_tokens, scenes) ==
  /\ ~Scan(LineKinds(all_tokens), 1, <<>>).found
  /\ scenes = TreeOfLines(LinesOf(all_tokens, SortedKeys(DOMAIN all_tokens)))
  /\ CountElements(scenes) - Len(scenes)
       = Cardinality({n \in DOMAIN all_tokens :
                        all_tokens[n][1][1] \in {"DIALOGUE", "CHOICE", "IF"}})

\* C37: in the tree of an accepted script each dialogue, choice and @if line
\* is one element, in the list of the innermost block open at the line (the
\* content of the scene, the if_block of the @if before its @else, the
\* else_block after it) and in the order of the lines; the lines after the
\* @endif of a nested @if belong to the enclosing block, and there are as
\* many elements as there are such lines.
EachLineOneElement ==
  Accepted => LinesPlaced(unit.lexed.all_tokens, unit.parsed.ast)

\* a choice after the @endif of a nested @if has been placed in the if_block
\* of the outer @if, after the nested @if
AfterNestedEndifPlaced ==
  /\ Accepted
  /\ unit.lines = <<LScene, LIf, LIf, AtEndif, LChoice, AtEndif>>
  /\ Len(unit.parsed.ast[1].content) = 1
  /\ Len(unit.parsed.ast[1].content[1].if_block) = 2
  /\ unit.parsed.ast[1].content[1].if_block[1].kind = "If"
  /\ unit.parsed.ast[1].content[1].if_block[1].if_block = <<>>
  /\ unit.parsed.ast[1].content[1].if_block[2].kind = "Choice"

\* ---- the content of a bracket, read off the tokens by counting
\* opening brackets less closing brackets among the tokens i..j
Balance(toks, i, j) ==
  Cardinality({k \in i..j : toks[k][1] = "OPEN_BRACKET"})
    - Cardinality({k \in i..j : toks[k][1] = "CLOSE_BRACKET"})

\* the closing brackets from which the depth counted from token i is zero
Closers(toks, i) ==
  {j \in (i + 1)..Len(toks) :
     toks[j][1] = "CLOSE_BRACKET" /\ Balance(toks, i, j) = 0}

ExtractedAsCounted(toks, i, b) ==
  /\ (b.err = NoParseError) <=> (Closers(toks, i) # {})
  /\ b.err # NoParseError => b.err.exc = "ValueError"
  /\ b.err = NoParseError =>
       /\ b.next = Least(Closers(toks, i)) + 1
       /\ b.content = Join([k \in 1..(Least(Closers(toks, i)) - i - 1) |->
                              toks[i + k][2]])

\* C38: _parse_bracket_content, started at any opening bracket of a lexed
\* line, returns the texts of the tokens between that bracket and the first
\* closing bracket at which the depth is back at zero, joined, inner brackets
\* included, and the index of the token after that closing bracket; it
\* raises an error when no closing bracket of the line brings the depth back
\* to zero.
BracketContentExtracted ==
  (unit.kind = "text" /\ unit.stage \in {"parsed", "built"}) =>
    \A n \in DOMAIN unit.lexed.all_tokens :
      \A i \in 1..Len(unit.lexed.all_tokens[n]) :
        unit.lexed.all_tokens[n][i][1] = "OPEN_BRACKET" =>
          ExtractedAsCounted(unit.lexed.all_tokens[n], i,
                             parse_bracket_content(unit.lexed.all_tokens[n], i))

\* "* a { {x} }" has been parsed: the condition of the choice is the content
\* of the outer bracket, the inner brackets in it
NestedBracketKept ==
  /\ Accepted
  /\ unit.lines = <<LScene, LChoice \o <<" ", "{">> \o <<" ", "{", "x", "}">>
                              \o <<" ", "}">> >>
  /\ unit.parsed.ast[1].content[1].condition = Some(<<"{", "x", "}">>)
  /\ parse_bracket_content(unit.lexed.all_tokens[2], 3).next = 8

\* "* a { {x}" has been refused: the depth never returns to zero
OpenBracketRefused ==
  /\ unit.kind = "text" /\ unit.stage = "parsed"
  /\ unit.lines = <<LScene, LChoice \o <<" ", "{">> \o <<" ", "{", "x", "}">> >>
  /\ unit.parsed.err.exc = "ValueError"

\* ============================================================= SceneManager
\* The scene manager of scene_manager.py on its own: unit = [kind,
\* current_scene_id, game_state, state_history, before, last, streak] where
\* game_state is the content of SceneManager.game_state, state_history the
\* list of StateHistoryEntry objects as (game_state, scene_id), before the
\* three of them as the last call found them and last the call and what
\* it returned.  streak counts the calls of apply_effect that returned, made
\* one after the other, and the successful calls of back() made after them,
\* with the GameState that the first of those calls found.

\* most entries of SceneManager.state_history
MaxSceneHistory == 6

NoScene == ""
SceneIdsKnown == {"start", "cave"}

\* what the scenes hand to apply_effect
SceneEffects ==
  {<<"add_item", "Gold", "1">>, <<"remove_item", "Gold", "1">>,
   <<"set_stat", "hp", "Bob">>, <<"add_stat", "hp", "1">>, <<"add_item", "Gold">>}

\* StateHistoryEntry(game_state, current_scene_id, ...): a deep copy of the
\* GameState and the scene id
StateHistoryEntry(gs, current_scene_id) ==
  [game_state |-> gs, scene_id |-> current_scene_id]

\* SceneManager._save_state
save_state(state_history, gs, current_scene_id) ==
  Append(state_history, StateHistoryEntry(gs, current_scene_id))

\* SceneManager.apply_effect on an effect that Effect.create accepted: the
\* state saved, the effect applied, the state saved again unless apply raised
apply_effect(m, effect) ==
  LET r == EffectApply(effect, m.game_state)
      saved == save_state(m.state_history, m.game_state, m.current_scene_id)
  IN [exc |-> r.exc,
      game_state |-> r.gs,
      state_history |-> IF r.exc # "" THEN saved
                        ELSE save_state(saved, r.gs, m.current_scene_id)]

\* SceneManager.back
back(m) ==
  IF Len(m.state_history) < 2
    THEN [ok |-> FALSE, state_history |-> m.state_history,
          game_state |-> m.game_state, current_scene_id |-> m.current_scene_id]
    ELSE LET popped == SubSeq(m.state_history, 1, Len(m.state_history) - 1) IN
         [ok |-> TRUE, state_history |-> popped,
          game_state |-> popped[Len(popped)].game_state,
          current_scene_id |-> popped[Len(popped)].scene_id]

NoStreak == [applied |-> 0, backs |-> 0, base |-> EmptyGameState]

Found(m) ==
  [game_state |-> m.game_state, state_history |-> m.state_history,
   current_scene_id |-> m.current_scene_id]

\* SceneManager(starting_scene_id)
InitScenes ==
  /\ RunnerIdle
  /\ \E starting_scene_id \in {NoScene, "start"} :
       unit = [kind |-> "scenes",
               current_scene_id |-> starting_scene_id,
               game_state |-> EmptyGameState,
               state_history |->
                 IF starting_scene_id # NoScene
                   THEN save_state(<<>>, EmptyGameState, starting_scene_id)
                   ELSE <<>>,
               before |-> [game_state |-> EmptyGameState, state_history |-> <<>>,
                           current_scene_id |-> starting_scene_id],
               last |-> [op |-> "init", result |-> "None"],
               streak |-> NoStreak]

\* scene_manager.apply_effect(text)
SceneApplyEffect ==
  /\ unit.kind = "scenes"
  /\ Len(unit.state_history) + 2 <= MaxSceneHistory
  /\ \E parts \in SceneEffects :
       LET e == EffectCreate(parts) IN
       IF e.exc # ""
         THEN unit' = [unit EXCEPT !.before = Found(unit),
                                   !.last = [op |-> "apply_effect", result |-> e.exc],
                                   !.streak = NoStreak]
         ELSE LET r == apply_effect(unit, e) IN
              /\ WithinBounds(r.game_state, <<>>)
              /\ unit' = [unit EXCEPT
                   !.before = Found(unit),
                   !.game_state = r.game_state,
                   !.state_history = r.state_history,
                   !.last = [op |-> "apply_effect",
                             result |-> IF r.exc # "" THEN r.exc ELSE "None"],
                   !.streak =
                     IF r.exc # "" THEN NoStreak
                     ELSE IF unit.streak.applied >= 1 /\ unit.streak.backs = 0
                       THEN [unit.streak EXCEPT !.applied = @ + 1]
                     ELSE [applied |-> 1, backs |-> 0, base |-> unit.game_state]]
  /\ UNCHANGED runner

\* scene_manager.back()
SceneBack ==
  /\ unit.kind = "scenes"
  /\ LET r == back(unit) IN
     unit' = [unit EXCEPT
       !.before = Found(unit),
       !.game_state = r.game_state,
       !.state_history = r.state_history,
       !.current_scene_id = r.current_scene_id,
       !.last = [op |-> "back", result |-> IF r.ok THEN "True" ELSE "False"],
       !.streak = IF r.ok /\ unit.streak.applied >= 1
                    THEN [unit.streak EXCEPT !.backs = @ + 1]
                    ELSE unit.streak]
  /\ UNCHANGED runner

\* scene_manager.transition_to(scene_id), every scene but "nowhere" registered
SceneTransitionTo ==
  /\ unit.kind = "scenes"
  /\ Len(unit.state_history) + 1 <= MaxSceneHistory
  /\ \E scene_id \in SceneIdsKnown \cup {"nowhere"} :
       IF scene_id \notin SceneIdsKnown
         THEN unit' = [unit EXCEPT !.before = Found(unit),
                                   !.last = [op |-> "transition_to",
                                             result |-> "ValueError"],
                                   !.streak = NoStreak]
         ELSE unit' = [unit EXCEPT
                !.before = Found(unit),
                !.current_scene_id = scene_id,
                !.state_history = save_state(unit.state_history, unit.game_state,
                                             scene_id),
                !.last = [op |-> "transition_to", result |-> "None"],
                !.streak = NoStreak]
  /\ UNCHANGED runner

NextScenes ==
  \/ SceneApplyEffect
  \/ SceneBack
  \/ SceneTransitionTo

SpecScenes == InitScenes /\ [][NextScenes]_vars

\* C39: when N >= 1 calls of apply_effect, one after the other, have been
\* followed by N successful calls of back(), the GameState is the one that
\* the first of the calls of apply_effect found; and a call of back() that
\* finds fewer than two history entries returns False and leaves GameState,
\* history and current scene as they were.
BackInvertsEffects ==
  unit.kind = "scenes" =>
    /\ (unit.streak.applied >= 1 /\ unit.streak.backs = unit.streak.applied) =>
         unit.game_state = unit.streak.base
    /\ (unit.last.op = "back" /\ Len(unit.before.state_history) < 2) =>
         /\ unit.last.result = "False"
         /\ Found(unit) = unit.before

====
